---- MODULE Spec2Model ----
(***************************************************************************)
(* A model of the wave code generator (iree/turbine/kernel/wave/codegen.py) *)
(*                                                                         *)
(*  - the symbolic index compiler gen_sympy_index, as operators over a     *)
(*    post-order term sequence and an explicit operand stack;              *)
(*  - the bounds-mask builder _build_mask;                                 *)
(*  - the memory accesses handle_read and handle_write with their          *)
(*    gather/scatter index construction, handle_shuffle, and the counted   *)
(*    loop built by handle_reduction;                                      *)
(*  - the WaveEmitter emission pass as a state machine: one action per     *)
(*    iteration of _emit_graph's loop, the body of a reduction being       *)
(*    entered and left by the two halves of handle_reduction.              *)
(***************************************************************************)
EXTENDS Integers, Sequences, FiniteSets, TLC

(***************************************************************************)
(* Bounds of the model.                                                    *)
(***************************************************************************)
\* Longest root graph (number of nodes).
MaxNodes == 3
\* Number of emission passes run one after the other in one process.
MaxPasses == 2
\* Largest elements-per-thread count.
MaxLanes == 3
\* Largest declared dimension size and largest start offset.
MaxBound == 4
\* Integers a, b, c, d of the rational algebra range over -MaxInt..MaxInt.
MaxInt == 2

(***************************************************************************)
(* Small helpers.                                                          *)
(***************************************************************************)
Abs(x) == IF x < 0 THEN -x ELSE x

RECURSIVE Gcd(_, _)
Gcd(a, b) == IF b = 0 THEN Abs(a) ELSE Gcd(b, a % Abs(b))

Sign(x) == IF x < 0 THEN -1 ELSE 1

IsPrefix(s, t) == Len(s) <= Len(t) /\ SubSeq(t, 1, Len(s)) = s

RECURSIVE Concat(_)
Concat(ss) == IF ss = <<>> THEN <<>> ELSE Head(ss) \o Concat(Tail(ss))

(***************************************************************************)
(* IR values of the index compiler.  n = 0 is a scalar, n >= 1 a           *)
(* vector<n x elem>; val holds the runtime value (one entry per lane); cst *)
(* says that the value is the result of an arith.constant with an          *)
(* IntegerAttr, which is what get_const_val recognises.                    *)
(***************************************************************************)
ScalarV(elem, x, cst) == [n |-> 0, elem |-> elem, val |-> <<x>>, cst |-> cst]

VectorV(elem, xs) == [n |-> Len(xs), elem |-> elem, val |-> xs, cst |-> FALSE]

TypeOf(v) == [n |-> v.n, elem |-> v.elem]

ScalarType(elem) == [n |-> 0, elem |-> elem]

\* vector_d.splat(type, x).  The operand of vector.splat is a scalar; built
\* on a vector operand the operation is ill-typed and its result, which has
\* the type asked for, has no defined lanes.
Splat(type, x) ==
    [n |-> type.n, elem |-> type.elem,
     val |-> IF x.n = 0 THEN [i \in 1..type.n |-> x.val[1]] ELSE <<>>,
     cst |-> FALSE]

\* The result of an operation in progress: the value, the instructions it
\* appended, and the error raised ("none" when it returned).
Pure(v) == [v |-> v, instrs |-> <<>>, err |-> "none"]

FirstErr(a, b) == IF a # "none" THEN a ELSE b

\* _check_vec_scalar(a, b)
_check_vec_scalar(a, b) == a.n >= 1 /\ ScalarType(a.elem) = TypeOf(b)

\* _broadcast that splats only when the vector is the left operand.
_broadcast_left_only(a, b) ==
    IF TypeOf(a) = TypeOf(b)
    THEN [a |-> a, b |-> b, instrs |-> <<>>, err |-> "none"]
    ELSE IF _check_vec_scalar(a, b)
    THEN [a |-> a, b |-> Splat(TypeOf(a), b), instrs |-> <<"vector.splat">>,
          err |-> "none"]
    ELSE IF _check_vec_scalar(b, a)
    THEN [a |-> a, b |-> b, instrs |-> <<>>, err |-> "none"]
    ELSE [a |-> a, b |-> b, instrs |-> <<>>, err |-> "BroadcastMismatch"]

\* _broadcast(a, b)
_broadcast(a, b) ==
    IF TypeOf(a) = TypeOf(b)
    THEN [a |-> a, b |-> b, instrs |-> <<>>, err |-> "none"]
    ELSE IF _check_vec_scalar(a, b)
    THEN [a |-> a, b |-> Splat(TypeOf(a), b), instrs |-> <<"vector.splat">>,
          err |-> "none"]
    ELSE IF _check_vec_scalar(b, a)
    THEN [a |-> Splat(TypeOf(b), a), b |-> b, instrs |-> <<"vector.splat">>,
          err |-> "none"]
    ELSE [a |-> a, b |-> b, instrs |-> <<>>, err |-> "BroadcastMismatch"]

\* Truncating signed division (arith.divsi), divisor non-zero.
TruncDiv(a, b) == Sign(a) * Sign(b) * (Abs(a) \div Abs(b))

\* Ceiling signed division (arith.ceildivsi), divisor non-zero.
CeilDiv(a, b) ==
    LET t == TruncDiv(a, b)
    IN IF t * b # a /\ Sign(a) = Sign(b) THEN t + 1 ELSE t

\* Signed remainder (arith.remsi): the sign follows the dividend.
RemS(a, b) == a - b * TruncDiv(a, b)

\* One lane of an arith operation.
LaneOp(op, x, y) ==
    CASE op = "arith.addi" -> x + y
      [] op = "arith.muli" -> x * y
      [] op = "arith.divsi" -> TruncDiv(x, y)
      [] op = "arith.ceildivsi" -> CeilDiv(x, y)
      [] op = "arith.remsi" -> RemS(x, y)
      [] op = "arith.cmpi_slt" -> IF x < y THEN 1 ELSE 0
      [] op = "arith.andi" -> IF x = 1 /\ y = 1 THEN 1 ELSE 0

ResultElem(op, elem) == IF op = "arith.cmpi_slt" THEN "i1" ELSE elem

\* An elementwise arith operation on operands of one type.
ArithOp(op, a, b) ==
    [n |-> a.n, elem |-> ResultElem(op, a.elem),
     val |-> [i \in 1..Len(a.val) |-> LaneOp(op, a.val[i], b.val[i])],
     cst |-> FALSE]

\* The operation op on the operands as broadcast (bc), x and y being the
\* operations in progress that produced them.
ArithResult(op, x, y, bc) ==
    IF FirstErr(x.err, FirstErr(y.err, bc.err)) # "none"
    THEN [v |-> x.v, instrs |-> x.instrs \o y.instrs,
          err |-> FirstErr(x.err, FirstErr(y.err, bc.err))]
    ELSE [v |-> ArithOp(op, bc.a, bc.b),
          instrs |-> x.instrs \o y.instrs \o bc.instrs \o <<op>>,
          err |-> "none"]

\* arith_d.<op> on the operands that _broadcast(x, y) returns, x and y
\* being operations in progress.
BinOp(op, x, y) == ArithResult(op, x, y, _broadcast(x.v, y.v))

\* get_const_val(arg) == 1
get_const_val_is_one(v) == v.cst /\ v.elem = "index" /\ v.val[1] = 1

\* muli_fold(lhs, rhs) on broadcast operands
muli_fold_args(a, b) ==
    IF get_const_val_is_one(a) THEN [v |-> b, instrs |-> <<>>]
    ELSE IF get_const_val_is_one(b) THEN [v |-> a, instrs |-> <<>>]
    ELSE [v |-> ArithOp("arith.muli", a, b), instrs |-> <<"arith.muli">>]

MuliFoldResult(x, y, bc, m) ==
    IF FirstErr(x.err, FirstErr(y.err, bc.err)) # "none"
    THEN [v |-> x.v, instrs |-> x.instrs \o y.instrs,
          err |-> FirstErr(x.err, FirstErr(y.err, bc.err))]
    ELSE [v |-> m.v, instrs |-> x.instrs \o y.instrs \o bc.instrs \o m.instrs,
          err |-> "none"]

MuliFoldBroadcast(x, y, bc) ==
    MuliFoldResult(x, y, bc,
                   IF bc.err = "none" THEN muli_fold_args(bc.a, bc.b)
                   ELSE [v |-> x.v, instrs |-> <<>>])

\* muli_fold on the operands that _broadcast(x, y) returns
muli_fold(x, y) == MuliFoldBroadcast(x, y, _broadcast(x.v, y.v))

(***************************************************************************)
(* Operand stack entries: a concrete value or a deferred rational.         *)
(***************************************************************************)
Conc(v) == [rat |-> FALSE, v |-> v]

Rational(num, den) == [rat |-> TRUE, num |-> num, den |-> den]

\* A combinator's outcome: the stack entry, the instructions, the error.
EntryOf(m) == [e |-> Conc(m.v), instrs |-> m.instrs, err |-> m.err]

RatOf(num, den) ==
    [e |-> Rational(num.v, den.v), instrs |-> num.instrs \o den.instrs,
     err |-> FirstErr(num.err, den.err)]

\* _add that forgets to scale the concrete operand by the denominator.
_add_unscaled(lhs, rhs) ==
    IF lhs.rat /\ ~rhs.rat
    THEN RatOf(BinOp("arith.addi", Pure(rhs.v), Pure(lhs.num)), Pure(lhs.den))
    ELSE IF ~lhs.rat /\ rhs.rat
    THEN RatOf(BinOp("arith.addi", Pure(lhs.v), Pure(rhs.num)), Pure(rhs.den))
    ELSE IF lhs.rat /\ rhs.rat
    THEN RatOf(BinOp("arith.addi", muli_fold(Pure(lhs.num), Pure(rhs.den)),
                     muli_fold(Pure(rhs.num), Pure(lhs.den))),
               muli_fold(Pure(lhs.den), Pure(rhs.den)))
    ELSE EntryOf(BinOp("arith.addi", Pure(lhs.v), Pure(rhs.v)))

\* _add(lhs, rhs): x + (a/b) becomes (x*b + a) / b
_add(lhs, rhs) ==
    IF lhs.rat /\ ~rhs.rat
    THEN RatOf(BinOp("arith.addi", muli_fold(Pure(lhs.den), Pure(rhs.v)),
                     Pure(lhs.num)),
               Pure(lhs.den))
    ELSE IF ~lhs.rat /\ rhs.rat
    THEN RatOf(BinOp("arith.addi", muli_fold(Pure(lhs.v), Pure(rhs.den)),
                     Pure(rhs.num)),
               Pure(rhs.den))
    ELSE IF lhs.rat /\ rhs.rat
    THEN RatOf(BinOp("arith.addi", muli_fold(Pure(lhs.num), Pure(rhs.den)),
                     muli_fold(Pure(rhs.num), Pure(lhs.den))),
               muli_fold(Pure(lhs.den), Pure(rhs.den)))
    ELSE EntryOf(BinOp("arith.addi", Pure(lhs.v), Pure(rhs.v)))

\* _mul(lhs, rhs): x * (a/b) becomes (x*a) / b
_mul(lhs, rhs) ==
    IF lhs.rat /\ ~rhs.rat
    THEN RatOf(muli_fold(Pure(lhs.num), Pure(rhs.v)), Pure(lhs.den))
    ELSE IF ~lhs.rat /\ rhs.rat
    THEN RatOf(muli_fold(Pure(lhs.v), Pure(rhs.num)), Pure(rhs.den))
    ELSE IF lhs.rat /\ rhs.rat
    THEN RatOf(muli_fold(Pure(lhs.num), Pure(rhs.num)),
               muli_fold(Pure(lhs.den), Pure(rhs.den)))
    ELSE EntryOf(muli_fold(Pure(lhs.v), Pure(rhs.v)))

\* _floor that rounds the quotient up.
_floor_rounding_up(value) ==
    IF value.rat
    THEN EntryOf(BinOp("arith.ceildivsi", Pure(value.num), Pure(value.den)))
    ELSE [e |-> value, instrs |-> <<>>, err |-> "none"]

\* _floor(value)
_floor(value) ==
    IF value.rat
    THEN EntryOf(BinOp("arith.divsi", Pure(value.num), Pure(value.den)))
    ELSE [e |-> value, instrs |-> <<>>, err |-> "none"]

\* _ceiling(value)
_ceiling(value) ==
    IF value.rat
    THEN EntryOf(BinOp("arith.ceildivsi", Pure(value.num), Pure(value.den)))
    ELSE [e |-> value, instrs |-> <<>>, err |-> "none"]

(***************************************************************************)
(* Symbolic expressions, as the sequence of terms that                     *)
(* sympy.postorder_traversal yields, after expr.subs(idxc.subs).  A term   *)
(* is a record: k the sympy class, name the symbol, v the integer, p and q *)
(* the rational's numerator and denominator, args the free symbols of each *)
(* argument (what _group_rationals' sort key reads).  An expression under  *)
(* construction carries its own free symbols in syms.                      *)
(***************************************************************************)
Term(k) == [k |-> k, name |-> "", v |-> 0, p |-> 0, q |-> 1, args |-> <<>>]

ESymbol(name) ==
    [rpn |-> <<[Term("Symbol") EXCEPT !.name = name]>>, syms |-> {name}]

EInteger(v) == [rpn |-> <<[Term("Integer") EXCEPT !.v = v]>>, syms |-> {}]

\* sympy.Rational(c, d), d # 0: lowest terms, positive denominator, and an
\* Integer when the denominator is then 1.
ERational(c, d) ==
    LET g == Gcd(c, d)
        p == Sign(d) * (c \div g)
        q == Abs(d) \div g
    IN IF q = 1 THEN EInteger(p)
       ELSE [rpn |-> <<[Term("Rational") EXCEPT !.p = p, !.q = q]>>, syms |-> {}]

\* A term of class k over the argument expressions es (in args order).
EApply(k, es) ==
    [rpn |-> Concat([i \in 1..Len(es) |-> es[i].rpn])
               \o <<[Term(k) EXCEPT !.args = [i \in 1..Len(es) |-> es[i].syms]]>>,
     syms |-> UNION {es[i].syms : i \in 1..Len(es)}]

\* The name of the symbol idxc.iota(n) creates.
IotaName(n) ==
    CASE n = 1 -> "$IOTA1" [] n = 2 -> "$IOTA2" [] n = 3 -> "$IOTA3"
      [] n = 4 -> "$IOTA4" [] OTHER -> "$IOTA5"

\* idxc.iota(n): a symbol whose compile-time value is the tuple (0, .., n-1).
iota(n) == ESymbol(IotaName(n))

\* The indexing context's compile-time values: an integer, or iota's tuple.
IdxcInt(x) == [tuple |-> FALSE, v |-> x]

IdxcIota(n) == [tuple |-> TRUE, v |-> [i \in 1..n |-> i - 1]]

(***************************************************************************)
(* gen_sympy_index                                                         *)
(***************************************************************************)
\* _get_const(val)
_get_const(res) ==
    IF res.tuple THEN VectorV("index", res.v) ELSE ScalarV("index", res.v, TRUE)

\* _group_rationals' sort key: the induction variables the argument uses.
SortKey(arg, induction_var_syms) ==
    Cardinality({i \in 1..Len(induction_var_syms) : induction_var_syms[i] \in arg})

\* terms.sort(key=_key, reverse=True): stable, larger keys first.
SortTerms(terms, induction_var_syms) ==
    LET m == Len(induction_var_syms)
    IN Concat([j \in 1..(m + 1) |->
                 SelectSeq(terms,
                           LAMBDA t : SortKey(t.arg, induction_var_syms) = m + 1 - j)])

\* _group_rationals(stack, args): the popped values, non-rationals first.
\* The i-th argument is paired with the i-th value popped (the top first).
_group_rationals(stack, args, induction_var_syms) ==
    LET terms == [i \in 1..Len(args) |->
                    [arg |-> args[i], val |-> stack[Len(stack) - i + 1]]]
        sorted == IF Len(induction_var_syms) > 0
                  THEN SortTerms(terms, induction_var_syms) ELSE terms
        vals == [i \in 1..Len(sorted) |-> sorted[i].val]
    IN SelectSeq(vals, LAMBDA e : ~e.rat) \o SelectSeq(vals, LAMBDA e : e.rat)

Combine(func, lhs, rhs) == IF func = "_add" THEN _add(lhs, rhs) ELSE _mul(lhs, rhs)

Accumulate(acc, r) ==
    [e |-> r.e, instrs |-> acc.instrs \o r.instrs, err |-> r.err]

RECURSIVE ApplyFrom(_, _, _, _)
ApplyFrom(acc, args, i, func) ==
    IF i > Len(args) \/ acc.err # "none" THEN acc
    ELSE ApplyFrom(Accumulate(acc, Combine(func, acc.e, args[i])), args, i + 1, func)

\* _apply(args, func)
_apply(args, func) ==
    ApplyFrom([e |-> args[1], instrs |-> <<>>, err |-> "none"], args, 2, func)

\* _enforce_non_rational(val, term)
_enforce_non_rational(val) == IF val.rat THEN "RationalNotSupported" ELSE "none"

Pop(stack, n) == SubSeq(stack, 1, Len(stack) - n)

Raise(st, err) == [st EXCEPT !.err = err]

\* The stack with its n top entries replaced by the outcome r of a
\* combinator, or the error r raised.
Replace(st, n, r) ==
    IF r.err # "none" THEN [st EXCEPT !.stack = Pop(st.stack, n), !.err = r.err]
    ELSE [stack |-> Append(Pop(st.stack, n), r.e), instrs |-> st.instrs \o r.instrs,
          err |-> "none"]

\* BinaryOn with the operands handed to the operation in the reverse order.
BinaryOn_reversed(op, lhs, rhs) ==
    IF FirstErr(_enforce_non_rational(rhs), _enforce_non_rational(lhs)) # "none"
    THEN [e |-> lhs, instrs |-> <<>>,
          err |-> FirstErr(_enforce_non_rational(rhs), _enforce_non_rational(lhs))]
    ELSE EntryOf(BinOp(op, Pure(rhs.v), Pure(lhs.v)))

\* rhs = stack.pop(); lhs = stack.pop(); both must be concrete; op on them.
BinaryOn(op, lhs, rhs) ==
    IF FirstErr(_enforce_non_rational(rhs), _enforce_non_rational(lhs)) # "none"
    THEN [e |-> lhs, instrs |-> <<>>,
          err |-> FirstErr(_enforce_non_rational(rhs), _enforce_non_rational(lhs))]
    ELSE EntryOf(BinOp(op, Pure(lhs.v), Pure(rhs.v)))

\* The two-operand cases of the match (Mod, StrictLessThan, And).
BinaryCase(st, op) ==
    IF Len(st.stack) < 2 THEN Raise(st, "IndexError")
    ELSE Replace(st, 2, BinaryOn(op, st.stack[Len(st.stack) - 1],
                                 st.stack[Len(st.stack)]))

\* The Mul and Add cases.
NaryCase(st, term, func, induction_var_syms) ==
    IF Len(st.stack) < Len(term.args) THEN Raise(st, "IndexError")
    ELSE Replace(st, Len(term.args),
                 _apply(_group_rationals(st.stack, term.args, induction_var_syms),
                        func))

\* The floor and ceiling cases.
UnaryCase(st, ceil) ==
    IF Len(st.stack) < 1 THEN Raise(st, "IndexError")
    ELSE Replace(st, 1, IF ceil THEN _ceiling(st.stack[Len(st.stack)])
                        ELSE _floor(st.stack[Len(st.stack)]))

Push(st, entry, instrs) ==
    [stack |-> Append(st.stack, entry), instrs |-> st.instrs \o instrs, err |-> "none"]

\* One iteration of the loop over sympy.postorder_traversal(expr).
MatchTerm(st, term, idxc, dynamics, induction_var_syms) ==
    CASE term.k = "Symbol" ->
           IF term.name \in DOMAIN idxc
           THEN Push(st, Conc(_get_const(idxc[term.name])), <<"arith.constant">>)
           ELSE IF term.name \in DOMAIN dynamics
           THEN Push(st, Conc(dynamics[term.name]), <<>>)
           ELSE Raise(st, "UnknownSymbol")
      [] term.k = "Integer" ->
           Push(st, Conc(_get_const(IdxcInt(term.v))), <<"arith.constant">>)
      [] term.k = "Mul" -> NaryCase(st, term, "_mul", induction_var_syms)
      [] term.k = "Add" -> NaryCase(st, term, "_add", induction_var_syms)
      [] term.k = "Mod" -> BinaryCase(st, "arith.remsi")
      [] term.k = "floor" -> UnaryCase(st, FALSE)
      [] term.k = "ceiling" -> UnaryCase(st, TRUE)
      [] term.k = "Rational" ->
           Push(st, Rational(_get_const(IdxcInt(term.p)), _get_const(IdxcInt(term.q))),
                <<"arith.constant", "arith.constant">>)
      [] term.k = "StrictLessThan" -> BinaryCase(st, "arith.cmpi_slt")
      [] term.k = "And" -> BinaryCase(st, "arith.andi")
      [] term.k = "BooleanFalse" ->
           Push(st, Conc(ScalarV("i1", 0, TRUE)), <<"arith.constant">>)
      [] term.k = "BooleanTrue" ->
           Push(st, Conc(ScalarV("i1", 1, TRUE)), <<"arith.constant">>)
      [] term.k = "UnevaluatedExpr" -> st
      [] OTHER -> Raise(st, "UnsupportedExpression")

RECURSIVE Traverse(_, _, _, _, _, _)
Traverse(st, rpn, i, idxc, dynamics, induction_var_syms) ==
    IF i > Len(rpn) \/ st.err # "none" THEN st
    ELSE Traverse(MatchTerm(st, rpn[i], idxc, dynamics, induction_var_syms),
                  rpn, i + 1, idxc, dynamics, induction_var_syms)

\* The check after the loop (lines 433-436): exactly one concrete value.
SingleResult(st) ==
    IF st.err # "none"
    THEN [ok |-> FALSE, res |-> ScalarV("index", 0, FALSE), instrs |-> st.instrs,
          err |-> st.err]
    ELSE IF Len(st.stack) # 1 \/ st.stack[1].rat
    THEN [ok |-> FALSE, res |-> ScalarV("index", 0, FALSE), instrs |-> st.instrs,
          err |-> "MalformedExpression"]
    ELSE [ok |-> TRUE, res |-> st.stack[1].v, instrs |-> st.instrs, err |-> "none"]

\* gen_sympy_index(dynamics, expr, induction_var_syms): the value returned
\* (res), the instructions appended and the error raised.
gen_sympy_index(idxc, dynamics, expr, induction_var_syms) ==
    SingleResult(Traverse([stack |-> <<>>, instrs |-> <<>>, err |-> "none"],
                          expr.rpn, 1, idxc, dynamics, induction_var_syms))

(***************************************************************************)
(* The expressions _build_mask hands to sympy.  sympy flattens a sum into  *)
(* one Add, drops a zero term, and flattens a conjunction into one And.    *)
(***************************************************************************)
TopTerm(e) == e.rpn[Len(e.rpn)]

IsZero(e) == Len(e.rpn) = 1 /\ TopTerm(e).k = "Integer" /\ TopTerm(e).v = 0

\* A term of class k over the arguments of e (itself of class k) and then x.
Flatten(k, e, x) ==
    [rpn |-> SubSeq(e.rpn, 1, Len(e.rpn) - 1) \o x.rpn
               \o <<[Term(k) EXCEPT !.args = Append(TopTerm(e).args, x.syms)]>>,
     syms |-> e.syms \cup x.syms]

\* e + x, for x a symbol
SymAdd(e, x) ==
    IF IsZero(e) THEN x
    ELSE IF TopTerm(e).k = "Add" THEN Flatten("Add", e, x)
    ELSE EApply("Add", <<e, x>>)

\* lhs < rhs
SymLt(lhs, rhs) == EApply("StrictLessThan", <<lhs, rhs>>)

\* sympy.And(a, b)
SymAnd(a, b) ==
    IF TopTerm(a).k = "And" THEN Flatten("And", a, b)
    ELSE EApply("And", <<a, b>>)

RECURSIVE ReduceAnd(_, _, _)
ReduceAnd(acc, preds, i) ==
    IF i > Len(preds) THEN acc ELSE ReduceAnd(SymAnd(acc, preds[i]), preds, i + 1)

\* The entry of the index annotation for dimension dim.
IndexOf(index, dim) ==
    index[CHOOSE i \in 1..Len(index) : index[i].dim = dim]

\* new_index without the lane offsets (the iota term forgotten).
NewIndex_NoIota(index, elements_per_thread) == index

\* The start expressions, the last dimension's with iota added (lines 559-562).
NewIndex(index, elements_per_thread) ==
    [i \in 1..Len(index) |->
       IF i = Len(index)
       THEN [index[i] EXCEPT !.start = SymAdd(index[i].start, iota(elements_per_thread))]
       ELSE index[i]]

\* mask_expr (lines 564-566): the conjunction over the bounded dimensions.
MaskExpr(index, bounds, elements_per_thread) ==
    LET new_index == NewIndex(index, elements_per_thread)
        preds == [j \in 1..Len(bounds) |->
                    SymLt(IndexOf(new_index, bounds[j]).start, ESymbol(bounds[j]))]
    IN ReduceAnd(preds[1], preds, 2)

MaskVecType(elements_per_thread) == [n |-> elements_per_thread, elem |-> "i1"]

\* Lines 569-573: the mask g lowered to, splat to the mask vector type.
MaskOf(g, elements_per_thread) ==
    IF ~g.ok
    THEN [none |-> FALSE, mask |-> g.res, instrs |-> g.instrs, err |-> g.err]
    ELSE IF TypeOf(g.res) # MaskVecType(elements_per_thread)
    THEN [none |-> FALSE, mask |-> Splat(MaskVecType(elements_per_thread), g.res),
          instrs |-> Append(g.instrs, "vector.splat"), err |-> "none"]
    ELSE [none |-> FALSE, mask |-> g.res, instrs |-> g.instrs, err |-> "none"]

\* _build_mask(emitter, index, elements_per_thread).  bounds is what
\* find_index_bounds returned: none says that it returned None, dims are
\* the bounded dimensions otherwise.
_build_mask(idxc, dynamics, induction_var_syms, index, bounds, elements_per_thread) ==
    IF bounds.none
    THEN [none |-> TRUE, mask |-> ScalarV("i1", 1, FALSE), instrs |-> <<>>,
          err |-> "none"]
    ELSE MaskOf(gen_sympy_index(
                    idxc @@ (IotaName(elements_per_thread)
                               :> IdxcIota(elements_per_thread)),
                    dynamics,
                    MaskExpr(index, bounds.dims, elements_per_thread),
                    induction_var_syms),
                elements_per_thread)

(***************************************************************************)
(* Memory access.  An index annotation is a sequence of [dim, start]; a    *)
(* start is an integer c plus, when sym is not "", a runtime symbol.  An   *)
(* IndexMapping is a record of its input and output mappings, each a       *)
(* sequence of [dim, it] in dictionary order, it the number of the         *)
(* iterator the dimension's expression is.                                 *)
(***************************************************************************)
\* A sum of the integer c and the symbols of terms (each with a coefficient),
\* as sympy builds it: numbers folded into one leading term, a coefficient
\* of 1 and a zero constant dropped.
LinearExpr(c, terms) ==
    LET ts == [i \in 1..Len(terms) |->
                 IF terms[i].coef = 1 THEN ESymbol(terms[i].sym)
                 ELSE EApply("Mul", <<EInteger(terms[i].coef), ESymbol(terms[i].sym)>>)]
        all == (IF c = 0 /\ terms # <<>> THEN <<>> ELSE <<EInteger(c)>>) \o ts
    IN IF Len(all) = 1 THEN all[1] ELSE EApply("Add", all)

\* The terms of a start expression scaled by a stride.
StartTerms(start, stride) ==
    IF start.sym = "" THEN <<>> ELSE <<[coef |-> stride, sym |-> start.sym]>>

\* _get_start_indices(index), as expressions
_get_start_indices(index) ==
    [i \in 1..Len(index) |-> LinearExpr(index[i].start.c, StartTerms(index[i].start, 1))]

\* The expressions of exprs lowered one after the other from position i on,
\* acc holding the values and instructions so far.
AppendLowered(acc, g) ==
    [vals |-> Append(acc.vals, g.res), instrs |-> acc.instrs \o g.instrs, err |-> g.err]

RECURSIVE LowerAll(_, _, _, _, _)
LowerAll(acc, exprs, i, idxc, dynamics) ==
    IF i > Len(exprs) \/ acc.err # "none" THEN acc
    ELSE LowerAll(AppendLowered(acc, gen_sympy_index(idxc, dynamics, exprs[i], <<>>)),
                  exprs, i + 1, idxc, dynamics)

\* _build_start_indices(emitter, src_indices)
_build_start_indices(idxc, dynamics, exprs) ==
    LowerAll([vals |-> <<>>, instrs |-> <<>>, err |-> "none"], exprs, 1, idxc, dynamics)

\* IndexMapping: the shape of a side and the identity predicates.
SideShape(side) == [i \in 1..Len(side) |-> side[i].dim]

SideIsIdentity(side) == \A i \in 1..Len(side) : side[i].it = i

is_identity(mapping) == SideIsIdentity(mapping.inputs) /\ SideIsIdentity(mapping.outputs)

\* mapping.map_input_indices(shape) and mapping.map_output_indices(shape):
\* the iterator of each dimension of shape.
MapIndices(side, shape) ==
    [d \in 1..Len(shape) |->
       side[CHOOSE i \in 1..Len(side) : side[i].dim = shape[d]].it]

\* _is_identity_mapping that takes no mapping for the identity.
_is_identity_mapping_never(mapping, input_shape, output_shape) == FALSE

\* _is_identity_mapping(mapping, input_shape, output_shape); a shape that
\* is not given is <<>>.
_is_identity_mapping(mapping, input_shape, output_shape) ==
    /\ is_identity(mapping)
    /\ input_shape = <<>> \/ SideShape(mapping.inputs) = input_shape
    /\ output_shape = <<>> \/ SideShape(mapping.outputs) = output_shape

\* strides_from_symbolic_shape(idxc, shape): row-major strides of the
\* static sizes.
RECURSIVE strides_from_symbolic_shape(_, _)
strides_from_symbolic_shape(idxc, shape) ==
    IF Len(shape) <= 1 THEN [i \in 1..Len(shape) |-> 1]
    ELSE <<idxc[shape[2]].v * strides_from_symbolic_shape(idxc, Tail(shape))[1]>>
           \o strides_from_symbolic_shape(idxc, Tail(shape))

\* The index annotation with its starts as expressions (what _build_mask
\* reads).
IndexExprs(index) ==
    [i \in 1..Len(index) |->
       [dim |-> index[i].dim,
        start |-> LinearExpr(index[i].start.c, StartTerms(index[i].start, 1))]]

\* Lines 655-662: the offset expression.  Iterator p stands for the start
\* of the p-th entry of the index, the last iterator for that start plus
\* iota(elements_per_thread) plus thread_offset; the coordinate of each
\* dimension is multiplied by the dimension's stride and the products are
\* summed.
OffsetConst(index, index_mapping, strides, thread_offset, d) ==
    strides[d] * (index[index_mapping[d]].start.c
                    + IF index_mapping[d] = Len(index) THEN thread_offset ELSE 0)

RECURSIVE SumOver(_, _)
SumOver(f, n) == IF n = 0 THEN 0 ELSE f[n] + SumOver(f, n - 1)

OffsetTerms(index, index_mapping, strides, elements_per_thread, d) ==
    StartTerms(index[index_mapping[d]].start, strides[d])
      \o (IF index_mapping[d] = Len(index)
          THEN <<[coef |-> strides[d], sym |-> IotaName(elements_per_thread)]>>
          ELSE <<>>)

OffsetExpr(index, index_mapping, strides, elements_per_thread, thread_offset) ==
    LinearExpr(SumOver([d \in 1..Len(strides) |->
                          OffsetConst(index, index_mapping, strides, thread_offset, d)],
                       Len(strides)),
               Concat([d \in 1..Len(strides) |->
                         OffsetTerms(index, index_mapping, strides,
                                     elements_per_thread, d)]))

\* Lines 663-678 and the return: the mask m that _build_mask returned, or
\* the constant all-true mask; starts are the lowered start indices and g
\* the lowered offset expression.  The test of line 663 asks whether the
\* value (not its type) is a VectorType, which no value is, so that line 664
\* splats the lowered offsets whatever their type; lowered keeps them as
\* they were before.
GatherScatterResult(starts, g, m, elements_per_thread) ==
    IF FirstErr(starts.err, FirstErr(g.err, m.err)) # "none"
    THEN [start_indices |-> <<>>, offsets_vec |-> g.res, lowered |-> g.res,
          mask |-> m.mask, instrs |-> starts.instrs \o g.instrs,
          err |-> FirstErr(starts.err, FirstErr(g.err, m.err))]
    ELSE [start_indices |-> starts.vals,
          offsets_vec |-> Splat([n |-> elements_per_thread, elem |-> "index"], g.res),
          lowered |-> g.res,
          mask |-> IF m.none
                   THEN VectorV("i1", [i \in 1..elements_per_thread |-> 1])
                   ELSE m.mask,
          instrs |-> starts.instrs \o g.instrs \o <<"vector.splat">>
                       \o (IF m.none THEN <<"vector.constant_mask">> ELSE m.instrs),
          err |-> "none"]

\* The side that must be the identity taken to be the memory's side.
AssertedSideOfMemory(mapping, is_read) ==
    IF is_read THEN mapping.inputs ELSE mapping.outputs

\* Lines 588-597: the side asserted to be the identity (the outputs of a
\* read, the inputs of a write) and the side whose expressions address the
\* memory.
AssertedSide(mapping, is_read) == IF is_read THEN mapping.outputs ELSE mapping.inputs

MappedSide(mapping, is_read) == IF is_read THEN mapping.inputs ELSE mapping.outputs

\* _construct_gather_scatter_indices(emitter, symbolc_shape, index, mapping,
\* elements_per_thread, is_read, thread_offset); bounds is what
\* find_index_bounds returns for the index.
_construct_gather_scatter_indices(idxc, dynamics, symbolc_shape, index, mapping, elements_per_thread, is_read, thread_offset, bounds) ==
    IF ~SideIsIdentity(AssertedSide(mapping, is_read))
    THEN [start_indices |-> <<>>, offsets_vec |-> ScalarV("index", 0, FALSE),
          lowered |-> ScalarV("index", 0, FALSE),
          mask |-> ScalarV("i1", 0, FALSE), instrs |-> <<>>,
          err |-> "UnsupportedMapping"]
    ELSE GatherScatterResult(
           _build_start_indices(idxc, dynamics,
                                [d \in 1..Len(symbolc_shape) |-> EInteger(0)]),
           gen_sympy_index(
             idxc @@ (IotaName(elements_per_thread) :> IdxcIota(elements_per_thread)),
             dynamics,
             OffsetExpr(index,
                        MapIndices(MappedSide(mapping, is_read), symbolc_shape),
                        strides_from_symbolic_shape(idxc, symbolc_shape),
                        elements_per_thread, thread_offset),
             <<>>),
           _build_mask(idxc, dynamics, <<>>, IndexExprs(index), bounds,
                       elements_per_thread),
           elements_per_thread)

\* Lines 620-649: the offset of lane i relative to the mapped start, the
\* difference of two linear expressions over the same runtime symbols.
RelativeOffset(index, index_mapping, strides, thread_offset, i) ==
    SumOver([d \in 1..Len(strides) |->
               OffsetConst(index, index_mapping, strides, i + thread_offset, d)],
            Len(strides))
      - SumOver([d \in 1..Len(strides) |->
                   OffsetConst(index, index_mapping, strides, 0, d)],
                Len(strides))

\* The runtime symbols left in that difference: those of the lane's offset
\* that the start's offset does not cancel.
RelativeTerms(index, index_mapping, strides) ==
    LET lane == Concat([d \in 1..Len(strides) |->
                          StartTerms(index[index_mapping[d]].start, strides[d])])
        start == Concat([d \in 1..Len(strides) |->
                           StartTerms(index[index_mapping[d]].start, strides[d])])
    IN SelectSeq(lane, LAMBDA t : \A j \in 1..Len(start) : start[j] # t)

\* need_dynamic_offsets after the loop of lines 622-649: some lane's offset
\* is not a number.
NeedDynamicOffsets(index, index_mapping, strides, elements_per_thread) ==
    elements_per_thread > 0 /\ RelativeTerms(index, index_mapping, strides) # <<>>

\* result_index (line 612): the start the mapping gives each dimension of
\* the memory.
ResultIndex(index, index_mapping) ==
    [d \in 1..Len(index_mapping) |->
       LinearExpr(index[index_mapping[d]].start.c,
                  StartTerms(index[index_mapping[d]].start, 1))]

\* Lines 666-669: the mapped start indices lowered and the offsets as one
\* dense constant.
ConstantPathResult(starts, offsets) ==
    [start_indices |-> starts.vals, offsets_vec |-> VectorV("index", offsets),
     instrs |-> Append(starts.instrs, "arith.constant"), err |-> starts.err]

\* The constant-offset path of _construct_gather_scatter_indices (lines
\* 599-649 and 666-669), taken when no lane needs a dynamic offset.
ConstantOffsetPath(idxc, dynamics, symbolc_shape, index, mapping, elements_per_thread, is_read, thread_offset) ==
    IF ~SideIsIdentity(AssertedSide(mapping, is_read))
    THEN [start_indices |-> <<>>, offsets_vec |-> ScalarV("index", 0, FALSE),
          instrs |-> <<>>, err |-> "UnsupportedMapping"]
    ELSE ConstantPathResult(
           _build_start_indices(
             idxc, dynamics,
             ResultIndex(index, MapIndices(MappedSide(mapping, is_read), symbolc_shape))),
           [i \in 1..elements_per_thread |->
              RelativeOffset(index,
                             MapIndices(MappedSide(mapping, is_read), symbolc_shape),
                             strides_from_symbolic_shape(idxc, symbolc_shape),
                             thread_offset, i - 1)])

\* The condition of line 652.
TakesGeneralPath(need_dynamic_offsets) == need_dynamic_offsets \/ TRUE

\* An access that is masked whenever it is not in shared memory, with the
\* constant all-true mask when _build_mask returned none.
ContiguousAccessMasked(starts, m, shared, is_read) ==
    IF FirstErr(starts.err, m.err) # "none"
    THEN [instrs |-> starts.instrs, ops |-> <<>>, err |-> FirstErr(starts.err, m.err)]
    ELSE [instrs |-> starts.instrs \o m.instrs
                       \o <<"vector.constant_mask",
                            IF is_read THEN "vector.maskedload" ELSE "vector.maskedstore">>,
          ops |-> <<[op |-> IF is_read THEN "vector.maskedload" ELSE "vector.maskedstore",
                     start_indices |-> starts.vals, mask |-> m.mask]>>,
          err |-> "none"]

\* An access that is masked whenever a mask was computed, the address space
\* not being looked at.
ContiguousAccessAnySpace(starts, m, shared, is_read) ==
    IF FirstErr(starts.err, m.err) # "none"
    THEN [instrs |-> starts.instrs, ops |-> <<>>, err |-> FirstErr(starts.err, m.err)]
    ELSE IF m.none
    THEN [instrs |-> starts.instrs \o m.instrs
                       \o <<IF is_read THEN "vector.load" ELSE "vector.store">>,
          ops |-> <<[op |-> IF is_read THEN "vector.load" ELSE "vector.store",
                     start_indices |-> starts.vals]>>,
          err |-> "none"]
    ELSE [instrs |-> starts.instrs \o m.instrs
                       \o (IF is_read
                           THEN <<"arith.constant", "vector.splat", "vector.maskedload">>
                           ELSE <<"vector.maskedstore">>),
          ops |-> <<[op |-> IF is_read THEN "vector.maskedload" ELSE "vector.maskedstore",
                     start_indices |-> starts.vals, mask |-> m.mask]>>,
          err |-> "none"]

\* Lines 706-718 and 794-800: the plain access when there is no mask or
\* the memory is in the shared address space, the masked access otherwise.
\* starts are the lowered start indices, m what _build_mask returned.
ContiguousAccess(starts, m, shared, is_read) ==
    IF FirstErr(starts.err, m.err) # "none"
    THEN [instrs |-> starts.instrs, ops |-> <<>>, err |-> FirstErr(starts.err, m.err)]
    ELSE IF m.none \/ shared
    THEN [instrs |-> starts.instrs \o m.instrs
                       \o <<IF is_read THEN "vector.load" ELSE "vector.store">>,
          ops |-> <<[op |-> IF is_read THEN "vector.load" ELSE "vector.store",
                     start_indices |-> starts.vals]>>,
          err |-> "none"]
    ELSE [instrs |-> starts.instrs \o m.instrs
                       \o (IF is_read
                           THEN <<"arith.constant", "vector.splat", "vector.maskedload">>
                           ELSE <<"vector.maskedstore">>),
          ops |-> <<[op |-> IF is_read THEN "vector.maskedload" ELSE "vector.maskedstore",
                     start_indices |-> starts.vals, mask |-> m.mask]>>,
          err |-> "none"]

\* Lines 726-740: one iteration of the loop over the lanes, gs being what
\* _construct_gather_scatter_indices returned for the lane.
AppendGather(acc, gs) ==
    IF gs.err # "none"
    THEN [instrs |-> acc.instrs \o gs.instrs, ops |-> acc.ops, err |-> gs.err]
    ELSE [instrs |-> acc.instrs \o gs.instrs
                       \o <<"vector.gather", "vector.extract", "vector.insert">>,
          ops |-> Append(acc.ops, [op |-> "vector.gather",
                                   start_indices |-> gs.start_indices,
                                   offsets_vec |-> gs.offsets_vec,
                                   lowered |-> gs.lowered, mask |-> gs.mask]),
          err |-> "none"]

RECURSIVE GatherLanes(_, _, _, _, _)
GatherLanes(acc, i, idxc, dynamics, node) ==
    IF i >= node.elements_per_thread \/ acc.err # "none" THEN acc
    ELSE GatherLanes(
           AppendGather(acc,
                        _construct_gather_scatter_indices(
                          idxc, dynamics, node.memory_shape, node.index, node.mapping,
                          1, TRUE, i, node.bounds)),
           i + 1, idxc, dynamics, node)

\* handle_read(emitter, node)
handle_read(idxc, dynamics, node) ==
    IF node.mapping.none \/ _is_identity_mapping(node.mapping, node.memory_shape, <<>>)
    THEN ContiguousAccess(
           _build_start_indices(idxc, dynamics, _get_start_indices(node.index)),
           _build_mask(idxc, dynamics, <<>>, IndexExprs(node.index), node.bounds,
                       node.elements_per_thread),
           node.shared, TRUE)
    ELSE GatherLanes([instrs |-> <<"arith.constant", "vector.splat", "vector.splat">>,
                      ops |-> <<>>, err |-> "none"],
                     0, idxc, dynamics, node)

\* Lines 815-818: the masked store of a single element, the scatter
\* otherwise; gs is what _construct_gather_scatter_indices returned.
ScatterAccess(gs, elements_per_thread) ==
    IF gs.err # "none" THEN [instrs |-> gs.instrs, ops |-> <<>>, err |-> gs.err]
    ELSE IF elements_per_thread = 1
    THEN [instrs |-> Append(gs.instrs, "vector.maskedstore"),
          ops |-> <<[op |-> "vector.maskedstore", start_indices |-> gs.start_indices,
                     mask |-> gs.mask]>>,
          err |-> "none"]
    ELSE [instrs |-> Append(gs.instrs, "vector.scatter"),
          ops |-> <<[op |-> "vector.scatter", start_indices |-> gs.start_indices,
                     offsets_vec |-> gs.offsets_vec, lowered |-> gs.lowered,
                     mask |-> gs.mask]>>,
          err |-> "none"]

\* handle_write(emitter, node), the register being bound to a vector of
\* elements_per_thread elements.
handle_write(idxc, dynamics, node) ==
    IF node.mapping.none
         \/ _is_identity_mapping(node.mapping, node.register_shape, node.memory_shape)
    THEN ContiguousAccess(
           _build_start_indices(idxc, dynamics, _get_start_indices(node.index)),
           _build_mask(idxc, dynamics, <<>>, IndexExprs(node.index), node.bounds,
                       node.elements_per_thread),
           node.shared, FALSE)
    ELSE IF node.register_shape # SideShape(node.mapping.inputs)
    THEN [instrs |-> <<>>, ops |-> <<>>, err |-> "UnsupportedMapping"]
    ELSE ScatterAccess(
           _construct_gather_scatter_indices(
             idxc, dynamics, node.memory_shape, node.index, node.mapping,
             node.elements_per_thread, FALSE, 0, node.bounds),
           node.elements_per_thread)

(***************************************************************************)
(* State.  The first three variables belong to the index compiler's        *)
(* specification SpecIdx: the inputs drawn (ixIn), what the lowering       *)
(* returned (ixOut) and whether it has run (ixPc).                         *)
(***************************************************************************)
VARIABLES ixPc, ixIn, ixOut

(***************************************************************************)
(* The state of the emission pass.                                         *)
(*   trace          the root graph of the CapturedTrace being emitted      *)
(*   pass           how many emitters have started emit() in this process  *)
(*   pc             "idle", "running", "done" or "failed"                  *)
(*   frames         the activations of _emit_graph: graph and position     *)
(*   _node_values   WaveEmitter._node_values (a ClassVar: one dictionary   *)
(*                  for all emitters)                                      *)
(*   induction_vars emitter.induction_vars                                 *)
(*   blocks         the instructions of the entry block (0) and of the     *)
(*                  loop bodies, each tagged with the node whose handler   *)
(*                  appended it (0: emit_program_invariants)               *)
(*   ip             the stack of insertion points                          *)
(*   ret            what the root _emit_graph returned                     *)
(*   error          the exception that left emit()                         *)
(* and, as history: invoked (the nodes whose handler this pass called, in  *)
(* order), lookups (the lookup_node_values calls of the last step),        *)
(* hookCalls (every call of resolve_by_reference so far), writes (how      *)
(* often this pass wrote each node's entry), failedAt (the node at which   *)
(* the pass failed).                                                       *)
(***************************************************************************)
VARIABLES trace, pass, pc, frames, _node_values, induction_vars, blocks, ip,
          ret, error, invoked, lookups, hookCalls, writes, failedAt

emVars == <<trace, pass, pc, frames, _node_values, induction_vars, blocks, ip,
            ret, error, invoked, lookups, hookCalls, writes, failedAt>>

vars == <<ixPc, ixIn, ixOut, trace, pass, pc, frames, _node_values,
          induction_vars, blocks, ip, ret, error, invoked, lookups, hookCalls,
          writes, failedAt>>

Top(s) == s[Len(s)]

Count(s, x) == Cardinality({i \in 1..Len(s) : s[i] = x})

\* The keys of WaveEmitter.OP_HANDLERS that the model's graphs use.
OP_HANDLERS ==
    {"register", "broadcast", "add", "shared_memory_barrier", "reduction",
     "get_result"}

(***************************************************************************)
(* Graph nodes.  op is fx's node.op; arity is the length of node.args;     *)
(* args are the operands that are nodes; size is the largest size of the   *)
(* node's index annotation; body is the body of a reduction's subgraph.    *)
(* Of a reduction, axis is its axis, the first carried of args are its     *)
(* init_args and the others its implicit_capture; res_idx is the result    *)
(* index of a get_result.                                                  *)
(***************************************************************************)
Node(op, tag, arity, args, size, body) ==
    [op |-> op, tkw_op_name |-> tag, arity |-> arity, args |-> args,
     size |-> size, body |-> body, axis |-> "K", carried |-> 1, res_idx |-> 0]

Placeholder == Node("placeholder", "", 0, <<>>, 0, "")

OutputNode(args) == Node("output", "output", 1, args, 0, "")

CallNode(tag, arity, args, size) == Node("call_function", tag, arity, args, size, "")

\* A reduction over axis with the init args init, the captured nodes
\* captured and the subgraph body.
ReductionNode(axis, init, captured, body) ==
    [Node("call_function", "reduction", 4, init \o captured, 0, body)
       EXCEPT !.axis = axis, !.carried = Len(init)]

\* get_result(value, res_idx)
GetResultNode(value, res_idx) ==
    [CallNode("get_result", 2, <<value>>, 0) EXCEPT !.res_idx = res_idx]

\* The nodes that can stand at position i of the root graph: operands are
\* earlier nodes.
NodeChoices(i) ==
    {Placeholder, OutputNode(IF i > 1 THEN <<i - 1>> ELSE <<>>),
     CallNode("register", 3, <<>>, 1), CallNode("register", 3, <<>>, 2),
     CallNode("register", 2, <<>>, 1),
     CallNode("shared_memory_barrier", 0, <<>>, 0),
     CallNode("unregistered_op", 0, <<>>, 0)}
    \cup (IF i = 1 THEN {}
          ELSE {CallNode("broadcast", 2, <<i - 1>>, sz) : sz \in 1..2}
               \cup {CallNode("add", 2, <<l, i - 1>>, 0) : l \in 1..(i - 1)}
               \cup {CallNode("get_result", 2, <<i - 1>>, 0)}
               \cup {Node("call_function", "reduction", 4, <<i - 1, i - 1>>, 0, b) :
                       b \in {"add", "shared_memory_barrier", "unregistered_op"}})

RECURSIVE GraphsOfLen(_)
GraphsOfLen(n) ==
    IF n = 0 THEN {<<>>}
    ELSE {Append(g, c) : g \in GraphsOfLen(n - 1), c \in NodeChoices(n)}

\* trace.get_subgraph: the body of the reduction node g.  Its nodes are
\* 10*g + 1 .. : the placeholders of the iter args, then those of the
\* captured variables, then the body's operations and the output.  With one
\* iter arg and one captured variable they are 10*g + 1, 10*g + 2,
\* 10*g + 3 (the body's operation) and 10*g + 4 (the output).  The body
\* "pair" carries two values (the sum of the first with the captured
\* variable, and the second as it is), the body "none" carries no value,
\* and the body "nested" holds a reduction over the axis L and, after it, a
\* barrier.
get_subgraph(g, body) ==
    CASE body = "pair" ->
           <<Placeholder, Placeholder, Placeholder,
             CallNode("add", 2, <<10 * g + 1, 10 * g + 3>>, 0),
             OutputNode(<<10 * g + 4, 10 * g + 2>>)>>
      [] body = "none" ->
           <<Placeholder, CallNode("shared_memory_barrier", 0, <<>>, 0),
             OutputNode(<<>>)>>
      [] body = "nested" ->
           <<Placeholder, Placeholder,
             ReductionNode("L", <<10 * g + 1>>, <<10 * g + 2>>, "add"),
             CallNode("shared_memory_barrier", 0, <<>>, 0),
             OutputNode(<<10 * g + 3>>)>>
      [] OTHER ->
           <<Placeholder, Placeholder,
             IF body = "add" THEN CallNode("add", 2, <<10 * g + 1, 10 * g + 2>>, 0)
             ELSE CallNode(body, 0, <<>>, 0),
             OutputNode(IF body = "add" THEN <<10 * g + 3>> ELSE <<10 * g + 1>>)>>

\* graph.nodes; graph 0 is the root graph, graph g the subgraph of the
\* reduction node g, itself the node g % 10 of the graph g \div 10.
RECURSIVE GraphNodes(_)
GraphNodes(g) ==
    IF g = 0 THEN trace
    ELSE get_subgraph(g, GraphNodes(g \div 10)[g % 10].body)

\* The node with the identifier id.
NodeOf(id) == GraphNodes(id \div 10)[id % 10]

NodeId(g, pos) == IF g = 0 THEN pos ELSE 10 * g + pos

IsRootId(id) == id \in 1..Len(trace)

IsCall(node) == node.op = "call_function" \/ node.op = "call_method"

\* A traversal that does not stop at an output node.
StopsNowhere(node) == FALSE

\* The test of line 138.
StopsAt(node) == node.op = "output"

(***************************************************************************)
(* IR values: the result idx of the operation that node's handler created  *)
(* in pass p, or a block argument (kernel argument, iter arg, induction    *)
(* variable).  n is the vector width, 0 for a non-vector.                  *)
(***************************************************************************)
Result(node, p, n) == [kind |-> "result", node |-> node, pass |-> p, n |-> n, idx |-> 0]

BlockArg(node, p, n) == [kind |-> "arg", node |-> node, pass |-> p, n |-> n, idx |-> 0]

\* The six instructions of emit_program_invariants.
ProgramInvariants ==
    [i \in 1..6 |->
       [op |-> IF i <= 3 THEN "stream.dispatch.workgroup.id" ELSE "gpu.thread_id",
        node |-> 0]]


Ints == (0 - MaxInt)..MaxInt

RuntimeV(x) == ScalarV("index", x, FALSE)

\* A scalar (n = 0) or a vector of n lanes x, x+1, ...
SampleV(elem, n, x, cst) ==
    IF n = 0 THEN ScalarV(elem, x, cst)
    ELSE VectorV(elem, [i \in 1..n |-> IF elem = "i1" THEN (x + i - 1) % 2 ELSE x + i - 1])

IsIntegerOne(e) == Len(e.rpn) = 1 /\ TopTerm(e).k = "Integer" /\ TopTerm(e).v = 1

Pair(swap, x, y) == IF swap THEN <<y, x>> ELSE <<x, y>>

\* floor(a + b*(c/d)), c/d a sympy Rational
FloorExpr(c, d, swap) ==
    LET r == ERational(c, d)
        prod == IF IsIntegerOne(r) THEN ESymbol("b")
                ELSE EApply("Mul", Pair(swap, r, ESymbol("b")))
    IN EApply("floor", <<EApply("Add", Pair(swap, ESymbol("a"), prod))>>)

\* floor((a*d + b*c)/d), built unevaluated
PreSimplifiedExpr(c, d, swap) ==
    LET num == EApply("Add", Pair(swap,
                   EApply("Mul", Pair(swap, EInteger(d), ESymbol("a"))),
                   EApply("Mul", Pair(swap, EInteger(c), ESymbol("b")))))
    IN EApply("floor", <<EApply("Mul", Pair(swap, ERational(1, d), num))>>)

\* The start expression of the mask scenario and the value it denotes.
StartExpr(kind, s0) ==
    CASE kind = "const" -> EInteger(s0)
      [] kind = "sym" -> ESymbol("T0")
      [] kind = "affine" -> EApply("Add", <<EInteger(1), ESymbol("T0")>>)

StartValue(kind, s0) == IF kind = "affine" THEN s0 + 1 ELSE s0

\* The index annotation of the mask scenario: ndims dimensions, the last (N)
\* the bounded one.
MaskIndex(in) ==
    IF in.ndims = 1 THEN <<[dim |-> "N", start |-> StartExpr(in.kind, in.s0)]>>
    ELSE <<[dim |-> "M", start |-> ESymbol("T1")],
           [dim |-> "N", start |-> StartExpr(in.kind, in.s0)]>>

\* Compile-time values and runtime bindings of the mask scenario: the size
\* of N is frozen in the indexing context or a dynamic dimension.
MaskIdxc(in) == IF in.frozen THEN "N" :> IdxcInt(in.B) ELSE <<>>

MaskDynamics(in) ==
    ("T0" :> RuntimeV(in.s0)) @@ ("T1" :> RuntimeV(0))
      @@ (IF in.frozen THEN <<>> ELSE "N" :> RuntimeV(in.B))

\* The index annotation of the many-dimensions mask scenario: dimensions K, M
\* and N, each starting at a runtime symbol.
DimsIndex ==
    <<[dim |-> "K", start |-> ESymbol("T2")],
      [dim |-> "M", start |-> ESymbol("T1")],
      [dim |-> "N", start |-> ESymbol("T0")]>>

\* The declared sizes: K and M hold one element, N holds MaxLanes.
DimsIdxc == ("K" :> IdxcInt(1)) @@ ("M" :> IdxcInt(1)) @@ ("N" :> IdxcInt(MaxLanes))

DimsDynamics(in) ==
    ("T0" :> RuntimeV(in.s0)) @@ ("T1" :> RuntimeV(in.sm)) @@ ("T2" :> RuntimeV(in.sk))

\* What find_index_bounds may return for it: the bounded dimensions, in the
\* order of the index.
BoundedDimChoices ==
    {<<"N">>, <<"M">>, <<"K">>, <<"M", "N">>, <<"K", "N">>, <<"K", "M">>,
     <<"K", "M", "N">>}

(***************************************************************************)
(* The runtime bindings of the emitter.  A constraint is known here by its *)
(* class, its dimension and, for a tiling constraint, the symbol of its    *)
(* induction variable.                                                     *)
(***************************************************************************)
TilingConstraint(dim) ==
    [tiling |-> TRUE, dim |-> dim, induction_var |-> IF dim = "K" THEN "$ARGK" ELSE "$ARGL"]

WorkgroupConstraint(dim) == [tiling |-> FALSE, dim |-> dim, induction_var |-> ""]

\* The loop of get_induction_vars from constraint i on (lines 184-190).
RECURSIVE InductionVarsFrom(_, _, _, _)
InductionVarsFrom(acc, constraints, table, i) ==
    IF i > Len(constraints) \/ acc.err # "none" THEN acc
    ELSE IF ~constraints[i].tiling THEN InductionVarsFrom(acc, constraints, table, i + 1)
    ELSE IF constraints[i].dim \notin DOMAIN table
    THEN [acc EXCEPT !.err = "AssertionError"]
    ELSE InductionVarsFrom(
           [acc EXCEPT !.syms = Append(@, constraints[i].induction_var),
                       !.vars = Append(@, table[constraints[i].dim])],
           constraints, table, i + 1)

\* get_induction_vars(emitter): nothing while the table is empty.
get_induction_vars(emitter) ==
    IF DOMAIN emitter.induction_vars = {}
    THEN [syms |-> <<>>, vars |-> <<>>, err |-> "none"]
    ELSE InductionVarsFrom([syms |-> <<>>, vars |-> <<>>, err |-> "none"],
                           emitter.constraints, emitter.induction_vars, 1)

\* dict(zip(keys, values)) from the pair i on: the shorter list ends it and
\* a later pair replaces an earlier one with the same key.
RECURSIVE ZipDict(_, _, _)
ZipDict(keys, values, i) ==
    IF i > Len(keys) \/ i > Len(values) THEN <<>>
    ELSE ZipDict(keys, values, i + 1) @@ (keys[i] :> values[i])

\* get_emitter_subs(emitter), given what get_induction_vars returned.
EmitterSubs(emitter, iv) ==
    emitter.dynamic_dims
      @@ ZipDict(<<"T0", "T1", "T2", "WG0", "WG1", "WG2">> \o iv.syms,
                 emitter.thread_ids \o emitter.workgroup_ids \o iv.vars, 1)

\* _gen_sympy_index_full(emitter, expr): the assertion of
\* get_induction_vars leaves it before anything is lowered.
_gen_sympy_index_full(idxc, emitter, expr) ==
    IF get_induction_vars(emitter).err # "none"
    THEN [ok |-> FALSE, res |-> ScalarV("index", 0, FALSE), instrs |-> <<>>,
          err |-> get_induction_vars(emitter).err]
    ELSE gen_sympy_index(idxc, EmitterSubs(emitter, get_induction_vars(emitter)), expr,
                         get_induction_vars(emitter).syms)

\* The constraint lists of the bindings scenario.
ConstraintLists ==
    {<<WorkgroupConstraint("M")>>,
     <<WorkgroupConstraint("M"), TilingConstraint("K")>>,
     <<TilingConstraint("L"), WorkgroupConstraint("M")>>,
     <<TilingConstraint("K"), TilingConstraint("L")>>,
     <<TilingConstraint("L"), WorkgroupConstraint("M"), TilingConstraint("K")>>}

\* Its expressions: a thread id, a dimension with a compile-time size, the
\* induction symbol of K or of L, a sum, and a symbol nothing binds.
BindingsExpr(e) ==
    CASE e = "thread" -> ESymbol("T0")
      [] e = "size" -> ESymbol("N")
      [] e = "arg_k" -> ESymbol("$ARGK")
      [] e = "arg_l" -> ESymbol("$ARGL")
      [] e = "sum" -> EApply("Add", <<ESymbol("$ARGK"), ESymbol("WG1")>>)
      [] OTHER -> ESymbol("U")

BindingsIdxc == "N" :> IdxcInt(MaxBound)

\* Its emitter: the reductions over the axes in.entered are entered.
BindingsEmitter(in) ==
    [constraints |-> in.constraints,
     induction_vars |-> [a \in in.entered |-> RuntimeV(IF a = "K" THEN in.ik ELSE in.il)],
     thread_ids |-> <<RuntimeV(in.t0), RuntimeV(0), RuntimeV(0)>>,
     workgroup_ids |-> <<RuntimeV(0), RuntimeV(in.w1), RuntimeV(0)>>,
     dynamic_dims |-> <<>>]

\* What _emit_graph returns when it meets no output node.
NoRet == [none |-> TRUE, args |-> <<>>]

\* No emitter exists yet.
EmIdle ==
    /\ pass = 0 /\ pc = "idle" /\ frames = <<>>
    /\ _node_values = <<>> /\ induction_vars = <<>>
    /\ blocks = (0 :> <<>>) /\ ip = <<>>
    /\ ret = NoRet /\ error = "none"
    /\ invoked = <<>> /\ lookups = <<>> /\ hookCalls = <<>> /\ writes = <<>>
    /\ failedAt = 0

IdxInit ==
    /\ trace = <<>> /\ EmIdle
    /\ ixPc = "init"
    /\ ixOut = <<>>
    /\ \/ \E a \in Ints, b \in Ints, c \in Ints \ {0}, d \in Ints \ {0},
            swap \in BOOLEAN, ivs \in {<<>>, <<"a">>, <<"b">>} :
            ixIn = [kind |-> "floor", a |-> a, b |-> b, c |-> c, d |-> d,
                    swap |-> swap, ivs |-> ivs]
       \/ \E x \in Ints, p \in Ints, q \in 1..(MaxInt + 1), r \in Ints,
            s \in 1..(MaxInt + 1), cst \in BOOLEAN, xn \in {0, 2} :
            ixIn = [kind |-> "combine", x |-> x, p |-> p, q |-> q, r |-> r,
                    s |-> s, cst |-> cst, xn |-> xn]
       \/ \E k \in 1..MaxLanes, B \in 0..MaxBound, s0 \in 0..MaxBound,
            kind \in {"const", "sym", "affine"}, frozen \in BOOLEAN,
            ndims \in 1..2 :
            ixIn = [kind |-> "mask", k |-> k, B |-> B, s0 |-> s0, skind |-> kind,
                    frozen |-> frozen, ndims |-> ndims]
       \/ \E na \in 0..MaxLanes, nb \in 0..MaxLanes, elem \in {"index", "i1"},
            xa \in 0..1, xb \in 0..1, cst \in BOOLEAN :
            ixIn = [kind |-> "broadcast", a |-> SampleV(elem, na, xa, cst),
                    b |-> SampleV(elem, nb, xb, cst)]
       \/ \E k \in {"Mod", "StrictLessThan", "And"}, l \in Ints, r \in Ints \ {0},
            lrat \in BOOLEAN, rrat \in BOOLEAN, below \in 0..1 :
            ixIn = [kind |-> "binary", k |-> k, l |-> l, r |-> r, lrat |-> lrat,
                    rrat |-> rrat, below |-> below]
       \/ \E shape \in {"sum", "prod", "conj", "halfsum", "floorhalf", "rational",
                          "mod"},
            n \in 2..MaxLanes, a \in Ints :
            ixIn = [kind |-> "stack", shape |-> shape, n |-> n, a |-> a]
       \/ \E count \in 0..MaxBound, c \in 0..2, a \in Ints :
            ixIn = [kind |-> "reduction", count |-> count,
                    init |-> [j \in 1..c |-> a + j - 1]]
       \/ \E vec \in BOOLEAN, shape \in {<<1>>, <<2>>, <<1, 1>>, <<1, MaxLanes>>},
            elem \in {"f8", "f16", "bf16", "f32", "f64", "i16", "i32"},
            offset \in {0, 1, 16}, offset_int \in BOOLEAN, width_int \in BOOLEAN :
            ixIn = [kind |-> "shuffle",
                    src |-> [vector |-> vec, shape |-> IF vec THEN shape ELSE <<>>,
                             elem |-> elem],
                    offset |-> [int |-> offset_int, v |-> offset],
                    width |-> [int |-> width_int, v |-> 32]]
       \/ \E is_read \in BOOLEAN,
            mapping \in {"none", "id", "id_nm", "perm_in", "perm_out", "perm_both"},
            memory_shape \in {<<"M", "N">>, <<"N", "M">>}, k \in 1..MaxLanes,
            bounded \in BOOLEAN, shared \in BOOLEAN, c \in 0..1, m0 \in 0..1,
            n0 \in {0, 1, MaxBound} :
            ixIn = [kind |-> "access", is_read |-> is_read, mapping |-> mapping,
                    memory_shape |-> memory_shape, k |-> k, bounded |-> bounded,
                    shared |-> shared, c |-> c, m0 |-> m0, n0 |-> n0]
       \/ \E mapping \in {"none", "id"}, k \in 1..MaxLanes, bounded \in BOOLEAN,
            shared \in BOOLEAN, c \in 0..1, m0 \in 0..1, n0 \in 0..1 :
            ixIn = [kind |-> "copy", mapping |-> mapping,
                    memory_shape |-> <<"M", "N">>, k |-> k, bounded |-> bounded,
                    shared |-> shared, c |-> c, m0 |-> m0, n0 |-> n0]
       \/ \E p \in Ints, q \in Ints \ {0}, cst \in BOOLEAN, xn \in {0, 2} :
            ixIn = [kind |-> "round", p |-> p, q |-> q, cst |-> cst, xn |-> xn]
       \/ \E is_read \in BOOLEAN,
            mapping \in {"id", "id_nm", "perm_in", "perm_out", "perm_both"},
            memory_shape \in {<<"M", "N">>, <<"N", "M">>}, k \in 1..MaxLanes,
            thread_offset \in 0..(MaxLanes - 1), c \in 0..1, m0 \in 0..1, n0 \in 0..1 :
            ixIn = [kind |-> "paths", is_read |-> is_read, mapping |-> mapping,
                    memory_shape |-> memory_shape, k |-> k,
                    thread_offset |-> thread_offset, bounded |-> FALSE,
                    shared |-> FALSE, c |-> c, m0 |-> m0, n0 |-> n0]
       \/ \E dims \in BoundedDimChoices, k \in 1..MaxLanes, sk \in 0..1, sm \in 0..1,
            s0 \in 0..MaxBound :
            ixIn = [kind |-> "maskdims", dims |-> dims, k |-> k, sk |-> sk,
                    sm |-> sm, s0 |-> s0]
       \/ \E constraints \in ConstraintLists, entered \in SUBSET {"K", "L"},
            e \in {"thread", "size", "arg_k", "arg_l", "sum", "unknown"},
            ik \in 0..1, il \in 0..1, t0 \in 0..1, w1 \in 0..1 :
            ixIn = [kind |-> "bindings", constraints |-> constraints,
                    entered |-> entered, e |-> e, ik |-> ik, il |-> il, t0 |-> t0,
                    w1 |-> w1]

\* gen_sympy_index on floor(a + b*(c/d)) and on the pre-simplified form.
LowerFloorExpr ==
    /\ ixPc = "init" /\ ixIn.kind = "floor"
    /\ LET dynamics == ("a" :> RuntimeV(ixIn.a)) @@ ("b" :> RuntimeV(ixIn.b))
       IN ixOut' = [e1 |-> gen_sympy_index(<<>>, dynamics,
                               FloorExpr(ixIn.c, ixIn.d, ixIn.swap), ixIn.ivs),
                    e2 |-> gen_sympy_index(<<>>, dynamics,
                               PreSimplifiedExpr(ixIn.c, ixIn.d, ixIn.swap), ixIn.ivs)]
    /\ ixPc' = "done"
    /\ UNCHANGED <<ixIn, emVars>>

\* _add and _mul on a concrete value x and the rationals p/q and r/s.
ApplyCombinators ==
    /\ ixPc = "init" /\ ixIn.kind = "combine"
    /\ LET x == Conc(SampleV("index", ixIn.xn, ixIn.x, ixIn.cst))
           pq == Rational(ScalarV("index", ixIn.p, ixIn.cst),
                          ScalarV("index", ixIn.q, TRUE))
           rs == Rational(ScalarV("index", ixIn.r, ixIn.cst),
                          ScalarV("index", ixIn.s, TRUE))
       IN ixOut' = [add_cr |-> _add(x, pq), add_rc |-> _add(pq, x),
                    add_rr |-> _add(pq, rs), add_rr2 |-> _add(rs, pq),
                    mul_cr |-> _mul(x, pq), mul_rc |-> _mul(pq, x),
                    mul_rr |-> _mul(pq, rs), mul_rr2 |-> _mul(rs, pq)]
    /\ ixPc' = "done"
    /\ UNCHANGED <<ixIn, emVars>>

\* _build_mask on an index whose last dimension is bounded.
BuildMask ==
    /\ ixPc = "init" /\ ixIn.kind = "mask"
    /\ ixOut' = _build_mask(MaskIdxc(ixIn), MaskDynamics(ixIn), <<>>,
                            MaskIndex([ixIn EXCEPT !.kind = ixIn.skind]),
                            [none |-> FALSE, dims |-> <<"N">>], ixIn.k)
    /\ ixPc' = "done"
    /\ UNCHANGED <<ixIn, emVars>>

\* _build_mask on a three-dimensional index of which find_index_bounds
\* returned the dimensions ixIn.dims.
BuildMaskDims ==
    /\ ixPc = "init" /\ ixIn.kind = "maskdims"
    /\ ixOut' = _build_mask(DimsIdxc, DimsDynamics(ixIn), <<>>, DimsIndex,
                            [none |-> FALSE, dims |-> ixIn.dims], ixIn.k)
    /\ ixPc' = "done"
    /\ UNCHANGED <<ixIn, emVars>>

\* _gen_sympy_index_full on an expression of the bindings scenario.
LowerWithBindings ==
    /\ ixPc = "init" /\ ixIn.kind = "bindings"
    /\ ixOut' = _gen_sympy_index_full(BindingsIdxc, BindingsEmitter(ixIn),
                                       BindingsExpr(ixIn.e))
    /\ ixPc' = "done"
    /\ UNCHANGED <<ixIn, emVars>>

\* _broadcast on two values, and a binary combinator (addi or andi) on them.
ApplyBroadcast ==
    /\ ixPc = "init" /\ ixIn.kind = "broadcast"
    /\ ixOut' = [bc |-> _broadcast(ixIn.a, ixIn.b),
                 op |-> BinOp(IF ixIn.a.elem = "i1" THEN "arith.andi" ELSE "arith.addi",
                              Pure(ixIn.a), Pure(ixIn.b))]
    /\ ixPc' = "done"
    /\ UNCHANGED <<ixIn, emVars>>

\* _floor and _ceiling on the deferred rational p/q (numerator and
\* denominator runtime values) and on a concrete value.
ApplyRounding ==
    /\ ixPc = "init" /\ ixIn.kind = "round"
    /\ LET pq == Rational(RuntimeV(ixIn.p), ScalarV("index", ixIn.q, ixIn.cst))
           x == Conc(SampleV("index", ixIn.xn, ixIn.p, ixIn.cst))
       IN ixOut' = [floor_r |-> _floor(pq), ceil_r |-> _ceiling(pq),
                    floor_c |-> _floor(x), ceil_c |-> _ceiling(x)]
    /\ ixPc' = "done"
    /\ UNCHANGED <<ixIn, emVars>>

\* An operand of the two-operand scenario: the runtime value x (a boolean
\* for And), or the deferred rational x/2.
Operand(k, x, rat) ==
    IF rat THEN Rational(RuntimeV(x), ScalarV("index", 2, TRUE))
    ELSE IF k = "And" THEN Conc(ScalarV("i1", x % 2, FALSE))
    ELSE Conc(RuntimeV(x))

\* The stack when the traversal reaches the term: below entries under the
\* two operands, the right operand on top.
OperandStack(in) ==
    [i \in 1..in.below |-> Conc(RuntimeV(7))]
      \o <<Operand(in.k, in.l, in.lrat), Operand(in.k, in.r, in.rrat)>>

\* The Mod, StrictLessThan or And case of the match on a stack holding the
\* two operands.
MatchBinaryTerm ==
    /\ ixPc = "init" /\ ixIn.kind = "binary"
    /\ ixOut' = MatchTerm([stack |-> OperandStack(ixIn), instrs |-> <<>>,
                           err |-> "none"],
                          Term(ixIn.k), <<>>, <<>>, <<>>)
    /\ ixPc' = "done"
    /\ UNCHANGED <<ixIn, emVars>>

\* The i-th symbol of the stack scenario (a thread or workgroup id).
Sym(i) == ESymbol(CASE i = 1 -> "T0" [] i = 2 -> "T1" [] i = 3 -> "T2" [] OTHER -> "T3")

\* The expressions of the stack scenario, as sympy builds them: a sum, a
\* product, a conjunction of n bound checks (each flattened into one n-ary
\* term), x + 1/2, floor(x + 1/2), 1/2 and x mod N.
StackExpr(in) ==
    CASE in.shape = "sum" -> EApply("Add", [i \in 1..in.n |-> Sym(i)])
      [] in.shape = "prod" -> EApply("Mul", [i \in 1..in.n |-> Sym(i)])
      [] in.shape = "conj" ->
           ReduceAnd(SymLt(Sym(1), ESymbol("N")),
                     [i \in 1..in.n |-> SymLt(Sym(i), ESymbol("N"))], 2)
      [] in.shape = "halfsum" -> EApply("Add", <<ERational(1, 2), Sym(1)>>)
      [] in.shape = "floorhalf" ->
           EApply("floor", <<EApply("Add", <<ERational(1, 2), Sym(1)>>)>>)
      [] in.shape = "rational" -> ERational(1, 2)
      [] in.shape = "mod" -> EApply("Mod", <<Sym(1), ESymbol("N")>>)

StackDynamics(in) ==
    [name \in {"T0", "T1", "T2", "T3"} |-> RuntimeV(in.a)] @@ ("N" :> RuntimeV(2))

\* gen_sympy_index on an expression of the stack scenario: the stack the
\* traversal leaves (st) and what the function returns (out).
LowerExpression ==
    /\ ixPc = "init" /\ ixIn.kind = "stack"
    /\ ixOut' = [st |-> Traverse([stack |-> <<>>, instrs |-> <<>>, err |-> "none"],
                                 StackExpr(ixIn).rpn, 1, <<>>, StackDynamics(ixIn),
                                 <<>>),
                 out |-> gen_sympy_index(<<>>, StackDynamics(ixIn), StackExpr(ixIn),
                                         <<>>)]
    /\ ixPc' = "done"
    /\ UNCHANGED <<ixIn, emVars>>

\* A loop that counts from one.
ReductionBoundsFromOne(count) == [lb |-> 1, ub |-> count, step |-> 1]

\* Lines 1089-1097: start, end and step of the loop of a reduction whose
\* trip count is count.
ReductionBounds(count) == [lb |-> 0, ub |-> count, step |-> 1]

\* The body of the reduction scenario, as the emission of its subgraph
\* leaves it in forOp.body: carried value j is added to the j-th captured
\* value, and the output node returns the sums in order.
ReductionBody(c) ==
    [ops |-> [j \in 1..c |-> [op |-> "arith.addf", lhs |-> [kind |-> "iter", j |-> j],
                               rhs |-> [kind |-> "captured", j |-> j]]],
     return_values |-> [j \in 1..c |-> [kind |-> "op", j |-> j]]]

\* Lines 1089-1129: the instructions handle_reduction appends to the
\* enclosing block and the scf.for it builds, with the operations and the
\* scf.yield of its body.
ReductionLoop(bounds, flat_init_args, body) ==
    [instrs |-> <<"arith.constant", "arith.constant", "arith.constant", "scf.for">>,
     lb |-> bounds.lb, ub |-> bounds.ub, step |-> bounds.step,
     inits |-> flat_init_args,
     inner_iter_args |-> Len(flat_init_args),
     body |-> Append(body.ops, [op |-> "scf.yield", operands |-> body.return_values]),
     results |-> Len(flat_init_args)]

\* The value of an operand of the body in one iteration.
Operand_value(ref, ops, carried, captured) ==
    CASE ref.kind = "iter" -> carried[ref.j]
      [] ref.kind = "captured" -> captured[ref.j]
      [] ref.kind = "op" ->
           (CASE ops[ref.j].lhs.kind = "iter" -> carried[ops[ref.j].lhs.j]
              [] OTHER -> captured[ops[ref.j].lhs.j])
           + (CASE ops[ref.j].rhs.kind = "iter" -> carried[ops[ref.j].rhs.j]
                [] OTHER -> captured[ops[ref.j].rhs.j])

\* scf.for: the results of the loop whose induction variable is at i and
\* whose iter args hold carried; each iteration hands the operands of the
\* body's scf.yield to the next.
RECURSIVE RunFor(_, _, _, _)
RunFor(loop, i, carried, captured) ==
    IF i >= loop.ub THEN carried
    ELSE RunFor(loop, i + loop.step,
                [j \in 1..Len(loop.body[Len(loop.body)].operands) |->
                   Operand_value(loop.body[Len(loop.body)].operands[j], loop.body,
                                 carried, captured)],
                captured)

\* The captured values of the reduction scenario: the j-th is j.
Captured(c) == [j \in 1..c |-> j]

\* The loop of a reduction with a static trip count, and what it computes.
EmitReduction ==
    /\ ixPc = "init" /\ ixIn.kind = "reduction"
    /\ LET loop == ReductionLoop(ReductionBounds(ixIn.count), ixIn.init,
                                 ReductionBody(Len(ixIn.init)))
       IN ixOut' = [loop |-> loop,
                    final |-> RunFor(loop, loop.lb, loop.inits,
                                     Captured(Len(ixIn.init)))]
    /\ ixPc' = "done"
    /\ UNCHANGED <<ixIn, emVars>>

\* _is_float_type(type) and type.width
IsFloatType(elem) == elem \in {"f8", "f16", "bf16", "f32", "f64"}

ElemWidth(elem) ==
    CASE elem = "f8" -> 8
      [] elem \in {"f16", "bf16", "i16"} -> 16
      [] elem \in {"f32", "i32"} -> 32
      [] OTHER -> 64

RECURSIVE Prod(_)
Prod(shape) == IF shape = <<>> THEN 1 ELSE Head(shape) * Prod(Tail(shape))

\* A shuffle of the element as it is, whatever its width.
ShuffleUnpadded(elem) == <<"gpu.shuffle xor">>

\* Lines 916-925: the element padded to 32 bits, shuffled, and the shuffled
\* value brought back to the element's type.
ShufflePadded(elem) ==
    IF ElemWidth(elem) < 32 THEN <<"arith.extf", "gpu.shuffle xor", "arith.truncf">>
    ELSE <<"gpu.shuffle xor">>

\* handle_shuffle(emitter, node) for node.args = (src, offset, width), src
\* bound to a value of the given type: whether the node is bound in the
\* end, the type of the value bound, the instructions appended, the error.
handle_shuffle(src, offset, width) ==
    IF ~offset.int \/ ~width.int
    THEN [bound |-> FALSE, type |-> src, instrs |-> <<>>,
          err |-> "UnsupportedDynamicParameter"]
    ELSE IF ~src.vector
    THEN [bound |-> FALSE, type |-> src, instrs |-> <<"arith.constant", "arith.constant">>,
          err |-> "UnsupportedShuffleShape"]
    ELSE IF Prod(src.shape) # 1
    THEN [bound |-> FALSE, type |-> src, instrs |-> <<"arith.constant", "arith.constant">>,
          err |-> "UnsupportedShuffleShape"]
    ELSE IF ~IsFloatType(src.elem)
    THEN [bound |-> FALSE, type |-> src,
          instrs |-> <<"arith.constant", "arith.constant", "vector.extract">>,
          err |-> "UnsupportedType"]
    ELSE IF ElemWidth(src.elem) > 32
    THEN [bound |-> FALSE, type |-> src,
          instrs |-> <<"arith.constant", "arith.constant", "vector.extract">>,
          err |-> "UnsupportedShuffleShape"]
    ELSE [bound |-> TRUE, type |-> src,
          instrs |-> <<"arith.constant", "arith.constant", "vector.extract">>
                       \o ShufflePadded(src.elem) \o <<"vector.broadcast">>,
          err |-> "none"]

\* handle_shuffle on a source of the drawn type.
EmitShuffle ==
    /\ ixPc = "init" /\ ixIn.kind = "shuffle"
    /\ ixOut' = handle_shuffle(ixIn.src, ixIn.offset, ixIn.width)
    /\ ixPc' = "done"
    /\ UNCHANGED <<ixIn, emVars>>

\* The mappings of the access scenario over two iterators: absent, the
\* identity keyed (M, N) or (N, M), and the swap of the two iterators on the
\* input side, the output side or both.
MappingOf(kind) ==
    LET straight == <<[dim |-> "M", it |-> 1], [dim |-> "N", it |-> 2]>>
        swapped == <<[dim |-> "M", it |-> 2], [dim |-> "N", it |-> 1]>>
        keyed_nm == <<[dim |-> "N", it |-> 1], [dim |-> "M", it |-> 2]>>
    IN CASE kind = "none" -> [none |-> TRUE, inputs |-> <<>>, outputs |-> <<>>]
         [] kind = "id" -> [none |-> FALSE, inputs |-> straight, outputs |-> straight]
         [] kind = "id_nm" -> [none |-> FALSE, inputs |-> keyed_nm, outputs |-> keyed_nm]
         [] kind = "perm_in" -> [none |-> FALSE, inputs |-> swapped, outputs |-> straight]
         [] kind = "perm_out" -> [none |-> FALSE, inputs |-> straight, outputs |-> swapped]
         [] kind = "perm_both" -> [none |-> FALSE, inputs |-> swapped, outputs |-> swapped]

\* The read or write node of the access scenario: its index annotation
\* gives dimension M the start T1 and dimension N the start c + T0; the
\* register of a write has the shape (M, N); when bounded, find_index_bounds
\* names the last dimension of the index.
AccessNode(in, mapping) ==
    [memory_shape |-> in.memory_shape, register_shape |-> <<"M", "N">>,
     elements_per_thread |-> in.k, mapping |-> MappingOf(mapping),
     index |-> <<[dim |-> "M", start |-> [c |-> 0, sym |-> "T1"]],
                 [dim |-> "N", start |-> [c |-> in.c, sym |-> "T0"]]>>,
     bounds |-> [none |-> ~in.bounded, dims |-> <<"N">>],
     shared |-> in.shared]

\* The static sizes of M and N, and the runtime values of the thread ids.
AccessIdxc == ("M" :> IdxcInt(MaxBound)) @@ ("N" :> IdxcInt(MaxBound + 1))

AccessDynamics(in) == ("T0" :> RuntimeV(in.n0)) @@ ("T1" :> RuntimeV(in.m0))

Handle(in, mapping) ==
    IF in.is_read THEN handle_read(AccessIdxc, AccessDynamics(in), AccessNode(in, mapping))
    ELSE handle_write(AccessIdxc, AccessDynamics(in), AccessNode(in, mapping))

\* The outcome of the two paths, and which one is returned.
PathsOutcome(need_dynamic_offsets, general, constant) ==
    [general |-> general, constant |-> constant,
     need_dynamic_offsets |-> need_dynamic_offsets,
     returned |-> IF TakesGeneralPath(need_dynamic_offsets) THEN general ELSE constant]

\* handle_read or handle_write on the node with its mapping (out) and on
\* the same node without mapping (ref).
EmitAccess ==
    /\ ixPc = "init" /\ ixIn.kind = "access"
    /\ ixOut' = [out |-> Handle(ixIn, ixIn.mapping), ref |-> Handle(ixIn, "none")]
    /\ ixPc' = "done"
    /\ UNCHANGED <<ixIn, emVars>>

\* The copy kernel: res = read(a), handled first ...
CopyRead ==
    /\ ixPc = "init" /\ ixIn.kind = "copy"
    /\ ixOut' = [program |-> handle_read(AccessIdxc, AccessDynamics(ixIn),
                                         AccessNode(ixIn, ixIn.mapping)).instrs]
    /\ ixPc' = "read"
    /\ UNCHANGED <<ixIn, emVars>>

\* ... and write(res, b), handled next: its instructions follow the read's.
CopyWrite ==
    /\ ixPc = "read" /\ ixIn.kind = "copy"
    /\ ixOut' = [program |-> ixOut.program
                               \o handle_write(AccessIdxc, AccessDynamics(ixIn),
                                               AccessNode(ixIn, ixIn.mapping)).instrs]
    /\ ixPc' = "done"
    /\ UNCHANGED <<ixIn, emVars>>

\* _construct_gather_scatter_indices on the node of the access scenario:
\* what it returns (returned), and what its two paths compute (general, the
\* branch of line 652, and constant, the branch of line 665).
ConstructIndices ==
    /\ ixPc = "init" /\ ixIn.kind = "paths"
    /\ ixOut' = PathsOutcome(
                  NeedDynamicOffsets(
                    AccessNode(ixIn, ixIn.mapping).index,
                    MapIndices(MappedSide(MappingOf(ixIn.mapping), ixIn.is_read),
                               ixIn.memory_shape),
                    strides_from_symbolic_shape(AccessIdxc, ixIn.memory_shape),
                    ixIn.k),
                  _construct_gather_scatter_indices(
                    AccessIdxc, AccessDynamics(ixIn), ixIn.memory_shape,
                    AccessNode(ixIn, ixIn.mapping).index, MappingOf(ixIn.mapping),
                    ixIn.k, ixIn.is_read, ixIn.thread_offset,
                    [none |-> TRUE, dims |-> <<>>]),
                  ConstantOffsetPath(
                    AccessIdxc, AccessDynamics(ixIn), ixIn.memory_shape,
                    AccessNode(ixIn, ixIn.mapping).index, MappingOf(ixIn.mapping),
                    ixIn.k, ixIn.is_read, ixIn.thread_offset))
    /\ ixPc' = "done"
    /\ UNCHANGED <<ixIn, emVars>>

IdxNext ==
    \/ CopyRead \/ CopyWrite
    \/ EmitAccess
    \/ EmitShuffle
    \/ EmitReduction
    \/ LowerExpression
    \/ LowerFloorExpr \/ ApplyCombinators \/ BuildMask \/ ApplyBroadcast
    \/ ApplyRounding \/ MatchBinaryTerm
    \/ BuildMaskDims
    \/ ConstructIndices
    \/ LowerWithBindings

SpecIdx == IdxInit /\ [][IdxNext]_vars

(***************************************************************************)
(* The emitter while a handler runs: a record em of the fields a handler   *)
(* can change, stk being the values its casts and lookups returned so far. *)
(* Once err is set every later statement of the handler is skipped.        *)
(***************************************************************************)
Em ==
    [nv |-> _node_values, iv |-> induction_vars, blocks |-> blocks, ip |-> ip,
     pass |-> pass, invoked |-> invoked, lookups |-> <<>>,
     hookCalls |-> hookCalls, writes |-> writes, stk |-> <<>>, err |-> "none"]

RaiseIn(em, e) == IF em.err # "none" THEN em ELSE [em EXCEPT !.err = e]

\* An operation built at the current insertion point, placed first in the
\* block instead of last.
InsertOpFirst(em, op, node) ==
    IF em.err # "none" THEN em
    ELSE [em EXCEPT !.blocks[Top(em.ip)] = <<[op |-> op, node |-> node]>> \o @]

\* An operation built at the current insertion point (the end of a block).
InsertOp(em, op, node) ==
    IF em.err # "none" THEN em
    ELSE [em EXCEPT !.blocks[Top(em.ip)] = Append(@, [op |-> op, node |-> node])]

\* self._node_values[node] = values
SetNodeValues(em, node, values) ==
    IF em.err # "none" THEN em
    ELSE [em EXCEPT !.nv = (node :> values) @@ em.nv,
                    !.writes = (node :> (IF node \in DOMAIN em.writes
                                         THEN em.writes[node] + 1 ELSE 1))
                                 @@ em.writes]

bind_node_proxy(em, node, proxy) == SetNodeValues(em, node, <<proxy>>)

bind_node_proxies(em, node, proxies) == SetNodeValues(em, node, proxies)

\* root_sig.resolve_by_reference(("node", node)): the kernel argument a
\* placeholder of the root graph is bound to; any other reference is unknown.
resolve_by_reference(em, node) ==
    IF IsRootId(node) /\ trace[node].op = "placeholder"
    THEN [ok |-> TRUE, v |-> BlockArg(node, em.pass, 0)]
    ELSE [ok |-> FALSE, v |-> BlockArg(node, em.pass, 0)]

\* Lines 154-155: the hook's answer r is stored and returned.
StoreResolved(em, node, r) ==
    IF ~r.ok THEN RaiseIn(em, "KeyError")
    ELSE [em EXCEPT !.nv = (node :> <<r.v>>) @@ em.nv,
                    !.writes = (node :> (IF node \in DOMAIN em.writes
                                         THEN em.writes[node] + 1 ELSE 1))
                                 @@ em.writes,
                    !.hookCalls = Append(@, [node |-> node, v |-> r.v]),
                    !.stk = Append(@, <<r.v>>),
                    !.lookups = Append(@, [node |-> node, had |-> node \in DOMAIN em.nv,
                                           hook |-> TRUE, values |-> <<r.v>>,
                                           before |-> IF node \in DOMAIN em.nv
                                                      THEN em.nv[node] ELSE <<>>])]

\* lookup_node_values without the test of line 153: the hook is asked every
\* time.
lookup_always_resolves(em, node) ==
    IF em.err # "none" THEN em
    ELSE StoreResolved(em, node, resolve_by_reference(em, node))

\* lookup_node_values(node)
lookup_node_values(em, node) ==
    IF em.err # "none" THEN em
    ELSE IF node \in DOMAIN em.nv
    THEN [em EXCEPT !.stk = Append(@, em.nv[node]),
                    !.lookups = Append(@, [node |-> node, had |-> TRUE,
                                           hook |-> FALSE, values |-> em.nv[node],
                                           before |-> em.nv[node]])]
    ELSE StoreResolved(em, node, resolve_by_reference(em, node))

\* The value on top of stk, a list of one IR value, replaced by that value;
\* the producer that has no IR value is a CodegenError.
SingleValue(em) ==
    IF em.err = "KeyError" THEN [em EXCEPT !.err = "NoIRValue"]
    ELSE IF em.err # "none" THEN em
    ELSE [em EXCEPT !.stk[Len(em.stk)] = Top(em.stk)[1]]

\* cast_py_value(emitter, value) for a value that is a node.
cast_py_value(em, value) == SingleValue(lookup_node_values(em, value))

\* The promotion of a non-vector to a vector (of rank 0) by cast_vector.
PromoteToVector(em, node) ==
    IF em.err # "none" \/ Top(em.stk).n >= 1 THEN em
    ELSE InsertOp([em EXCEPT !.stk[Len(em.stk)] = Result(node, em.pass, 0)],
                  "vector.splat", node)

\* cast_vector(emitter, value), called by the handler of node.
cast_vector(em, node, value) == PromoteToVector(cast_py_value(em, value), node)

(***************************************************************************)
(* The handlers.  id is the node being visited, node its record.           *)
(***************************************************************************)
\* handle_register
handle_register(em, id, node) ==
    IF node.arity # 3 THEN RaiseIn(em, "MalformedArguments")
    ELSE bind_node_proxy(InsertOp(em, "arith.constant", id), id,
                         Result(id, em.pass, node.size))

\* Lines 947-954, lhs and rhs being the two values on stk.
BinaryOnValues(em, id) ==
    IF em.err # "none" THEN em
    ELSE IF em.stk[1].n # em.stk[2].n THEN RaiseIn(em, "TypeMismatch")
    ELSE bind_node_proxy(InsertOp(em, "arith.addf", id), id,
                         Result(id, em.pass, em.stk[1].n))

\* handle_generic_binary, for operator.add on floats
handle_generic_binary(em, id, node) ==
    IF node.arity # 2 THEN RaiseIn(em, "MalformedArguments")
    ELSE BinaryOnValues(cast_py_value(cast_py_value(em, node.args[1]), node.args[2]),
                        id)

\* Lines 1197-1200: extract, splat and bind the splat.
ExtractAndSplat(em, id, node) ==
    bind_node_proxy(InsertOp(InsertOp(em, "vector.extract", id), "vector.splat", id),
                    id, Result(id, em.pass, node.size))

\* Lines 1185-1195, vector_src being the value on stk.
BroadcastVector(em, id, node) ==
    IF em.err # "none" THEN em
    ELSE IF Top(em.stk).n # 1 THEN RaiseIn(em, "AssertionError")
    ELSE ExtractAndSplat(IF node.size = 1 THEN bind_node_proxy(em, id, Top(em.stk))
                         ELSE em,
                         id, node)

\* handle_broadcast
handle_broadcast(em, id, node) ==
    IF node.arity # 2 THEN RaiseIn(em, "MalformedArguments")
    ELSE BroadcastVector(cast_vector(em, id, node.args[1]), id, node)

\* handle_shared_memory_barrier
handle_shared_memory_barrier(em, id, node) == InsertOp(em, "amdgpu.lds_barrier", id)

\* The number of results of the operation that owns the value v: the
\* carried values of a loop, one otherwise.
OwnerResults(v) ==
    IF NodeOf(v.node).tkw_op_name = "reduction" THEN NodeOf(v.node).carried ELSE 1

\* The looked-up value itself taken for the result, whatever the index.
OwnerResult_first(em, v, res_idx) == v

\* for_op.results[res_idx] for the owner of v: of a loop, the result of the
\* type of the iter arg res_idx.
OwnerResult(em, v, res_idx) ==
    IF NodeOf(v.node).tkw_op_name = "reduction"
    THEN [v EXCEPT !.idx = res_idx, !.n = em.nv[10 * v.node + res_idx + 1][1].n]
    ELSE [v EXCEPT !.idx = res_idx]

\* Lines 1215-1216: .owner of the first value on stk and its result res_idx.
BindOwnerResult(em, id) ==
    IF em.err # "none" THEN em
    ELSE IF Top(em.stk) = <<>> THEN RaiseIn(em, "IndexError")
    ELSE IF Top(em.stk)[1].kind # "result" THEN RaiseIn(em, "AttributeError")
    ELSE IF NodeOf(id).res_idx >= OwnerResults(Top(em.stk)[1])
    THEN RaiseIn(em, "IndexError")
    ELSE bind_node_proxy(em, id, OwnerResult(em, Top(em.stk)[1], NodeOf(id).res_idx))

\* handle_get_result
handle_get_result(em, id, node) ==
    IF node.arity # 2 THEN RaiseIn(em, "MalformedArguments")
    ELSE BindOwnerResult(lookup_node_values(em, node.args[1]), id)

\* Lines 1110-1111: the induction variable recorded, the body opened.
EnterBody(em, id) ==
    IF em.err # "none" THEN em
    ELSE [em EXCEPT !.iv = (NodeOf(id).axis :> BlockArg(id, em.pass, 0)) @@ em.iv,
                    !.blocks = (id :> <<>>) @@ em.blocks,
                    !.ip = Append(@, id)]

\* A capture that is left without entry.
AliasCaptured_skipped(em, subgraph_v) == em

\* Line 1119: the captured variable's entry written directly.
AliasCaptured(em, subgraph_v) ==
    IF em.err # "none" THEN em ELSE SetNodeValues(em, subgraph_v, Top(em.stk))

\* Lines 1087 and 1124-1126: the values cast one after the other, each left
\* on stk.
RECURSIVE CastAll(_, _, _)
CastAll(em, values, i) ==
    IF i > Len(values) THEN em ELSE CastAll(cast_py_value(em, values[i]), values, i + 1)

\* Lines 1115-1116: the placeholder of iter arg i bound to the loop's i-th
\* inner iter arg, which has the type of the i-th init arg.
RECURSIVE BindIterArgs(_, _, _, _)
BindIterArgs(em, id, i, init) ==
    IF em.err # "none" \/ i > Len(init) THEN em
    ELSE BindIterArgs(bind_node_proxy(em, 10 * id + i,
                                      BlockArg(10 * id + i, em.pass, init[i].n)),
                      id, i + 1, init)

\* Lines 1118-1119: the placeholder of each captured variable given the
\* values looked up for the node it captures.
RECURSIVE AliasAll(_, _, _, _)
AliasAll(em, id, node, j) ==
    IF em.err # "none" \/ node.carried + j > Len(node.args) THEN em
    ELSE AliasAll(AliasCaptured(lookup_node_values(em, node.args[node.carried + j]),
                                10 * id + node.carried + j),
                  id, node, j + 1)

\* Lines 1089-1119, the init args being the values on stk.
OpenLoop(em, id, node) ==
    IF em.err # "none" THEN em
    ELSE AliasAll(
           BindIterArgs(
             EnterBody(InsertOp(InsertOp(InsertOp(InsertOp(em,
                         "arith.constant", id), "arith.constant", id),
                         "arith.constant", id), "scf.for", id), id),
             id, 1, em.stk),
           id, node, 1)

\* handle_reduction up to the emission of the subgraph (lines 1079-1119).
handle_reduction(em, id, node) ==
    IF node.arity # 4 THEN RaiseIn(em, "MalformedArguments")
    ELSE OpenLoop(CastAll(em, SubSeq(node.args, 1, node.carried), 1), id, node)

\* forOp.results_: one result for each init arg, of the iter arg's type.
LoopResults(em, id) ==
    [i \in 1..NodeOf(id).carried |->
       [Result(id, em.pass, em.nv[10 * id + i][1].n) EXCEPT !.idx = i - 1]]

\* A loop whose axis is unbound again once its body is closed.
CloseLoop_clearing(em, id) ==
    IF em.err # "none" THEN em
    ELSE bind_node_proxies(
           [InsertOp(em, "scf.yield", id)
              EXCEPT !.ip = SubSeq(em.ip, 1, Len(em.ip) - 1),
                     !.iv = [a \in DOMAIN em.iv \ {NodeOf(id).axis} |-> em.iv[a]]],
           id, LoopResults(em, id))

\* A loop whose body stays the insertion point after the yield.
CloseLoop_staying(em, id) ==
    IF em.err # "none" THEN em
    ELSE bind_node_proxies(InsertOp(em, "scf.yield", id), id, LoopResults(em, id))

\* Lines 1127-1129: the yield, the body closed, the loop's results bound.
CloseLoop(em, id) ==
    IF em.err # "none" THEN em
    ELSE bind_node_proxies(
           [InsertOp(em, "scf.yield", id) EXCEPT !.ip = SubSeq(em.ip, 1, Len(em.ip) - 1)],
           id, LoopResults(em, id))

\* handle_reduction from the return of the subgraph's _emit_graph on
\* (lines 1121-1129), return_values being the output node's operands.
handle_reduction_return(em, id, return_values) ==
    CloseLoop(CastAll(em, return_values, 1), id)

\* handler(self, node) for the handler registered under the node's tag
CallHandler(em, id, node) ==
    CASE node.tkw_op_name = "register" -> handle_register(em, id, node)
      [] node.tkw_op_name = "add" -> handle_generic_binary(em, id, node)
      [] node.tkw_op_name = "broadcast" -> handle_broadcast(em, id, node)
      [] node.tkw_op_name = "shared_memory_barrier" ->
           handle_shared_memory_barrier(em, id, node)
      [] node.tkw_op_name = "get_result" -> handle_get_result(em, id, node)
      [] node.tkw_op_name = "reduction" -> handle_reduction(em, id, node)

\* _emit_function_call_node that passes over an operation without handler.
_emit_function_call_node_lenient(em, id, node) ==
    IF node.tkw_op_name \notin OP_HANDLERS THEN em
    ELSE CallHandler([em EXCEPT !.invoked = Append(@, id)], id, node)

\* _emit_function_call_node(node)
_emit_function_call_node(em, id, node) ==
    IF node.tkw_op_name \notin OP_HANDLERS THEN RaiseIn(em, "UnhandledOperation")
    ELSE CallHandler([em EXCEPT !.invoked = Append(@, id)], id, node)

\* An exception leaving emit() through the with statements: the insertion
\* points are left, and with this variant the blocks are emptied as well.
AbortDiscarding(em) ==
    [em EXCEPT !.ip = <<>>, !.blocks = [b \in DOMAIN em.blocks |-> <<>>]]

\* An exception leaving emit() through the with statements of lines 123 and
\* 1111: the insertion points are left, the blocks stay as they are.
Abort(em) == [em EXCEPT !.ip = <<>>]

(***************************************************************************)
(* The emission pass: one action for each iteration of _emit_graph's loop. *)
(* The handler of a reduction runs in two steps, the iterations over its   *)
(* subgraph between them; nothing else runs meanwhile.                     *)
(***************************************************************************)
Init ==
    /\ trace \in GraphsOfLen(MaxNodes)
    /\ EmIdle
    /\ ixPc = "off" /\ ixIn = <<>> /\ ixOut = <<>>

Cur == Top(frames)

AtNode == pc = "running" /\ Cur.pos <= Len(GraphNodes(Cur.g))

CurNode == GraphNodes(Cur.g)[Cur.pos]

CurId == NodeId(Cur.g, Cur.pos)

\* The loop moves to the next node of the graph.
Advance(fs) == [fs EXCEPT ![Len(fs)].pos = @ + 1]

Commit(em, newpc, newframes, newret, at) ==
    /\ _node_values' = em.nv /\ induction_vars' = em.iv /\ blocks' = em.blocks
    /\ ip' = em.ip /\ invoked' = em.invoked /\ lookups' = em.lookups
    /\ hookCalls' = em.hookCalls /\ writes' = em.writes /\ error' = em.err
    /\ pc' = newpc /\ frames' = newframes /\ ret' = newret /\ failedAt' = at
    /\ UNCHANGED <<trace, pass, ixPc, ixIn, ixOut>>

\* The handler returned (the loop goes on with the frames next) or raised
\* (the exception leaves every _emit_graph and emit).
Step(em, next) ==
    IF em.err # "none" THEN Commit(Abort(em), "failed", <<>>, NoRet, CurId)
    ELSE Commit(em, "running", next, NoRet, 0)

\* Lines 136-137 for a node whose tkw_op_name is tag.
Visit(tag) ==
    /\ AtNode /\ IsCall(CurNode) /\ CurNode.tkw_op_name = tag
    /\ Step(_emit_function_call_node(Em, CurId, CurNode),
            IF tag = "reduction" THEN Append(frames, [g |-> CurId, pos |-> 1])
            ELSE Advance(frames))

\* A new WaveEmitter on the same trace: __post_init__, then emit() up to the
\* call of _emit_graph (emit_program_invariants).
StartPass ==
    /\ pc \in {"idle", "done", "failed"} /\ pass < MaxPasses
    /\ pass' = pass + 1 /\ pc' = "running"
    /\ frames' = <<[g |-> 0, pos |-> 1]>>
    /\ ip' = <<0>> /\ blocks' = (0 :> ProgramInvariants)
    /\ induction_vars' = <<>>
    /\ ret' = NoRet /\ error' = "none" /\ failedAt' = 0
    /\ invoked' = <<>> /\ lookups' = <<>> /\ writes' = <<>>
    /\ UNCHANGED <<trace, _node_values, hookCalls, ixPc, ixIn, ixOut>>

\* A node that is neither a call nor the output (a placeholder).
VisitPlaceholder ==
    /\ AtNode /\ ~IsCall(CurNode) /\ ~StopsAt(CurNode)
    /\ Commit(Em, "running", Advance(frames), NoRet, 0)

VisitRegister == Visit("register")

VisitBinary == Visit("add")

VisitBroadcast == Visit("broadcast")

VisitBarrier == Visit("shared_memory_barrier")

VisitGetResult == Visit("get_result")

VisitReduction == Visit("reduction")

\* A call node whose tag has no handler.
VisitUnregistered == Visit("unregistered_op")

\* Line 139 in the root graph: emit() returns.
ReturnOutput ==
    /\ AtNode /\ Cur.g = 0 /\ StopsAt(CurNode)
    /\ Commit(Abort(Em), "done", <<>>, [none |-> FALSE, args |-> CurNode.args], 0)

\* The root graph's loop ends without an output node.
EndOfGraph ==
    /\ pc = "running" /\ Cur.g = 0 /\ Cur.pos > Len(GraphNodes(0))
    /\ Commit(Abort(Em), "done", <<>>, NoRet, 0)

\* Line 139 in a subgraph: back in handle_reduction, which finishes.
ReturnToReduction ==
    /\ AtNode /\ Cur.g # 0 /\ StopsAt(CurNode)
    /\ Step(handle_reduction_return(Em, Cur.g, CurNode.args),
            Advance(SubSeq(frames, 1, Len(frames) - 1)))

Next ==
    \/ StartPass
    \/ VisitPlaceholder
    \/ VisitRegister
    \/ VisitBinary
    \/ VisitBroadcast
    \/ VisitBarrier
    \/ VisitGetResult
    \/ VisitReduction
    \/ VisitUnregistered
    \/ ReturnOutput
    \/ EndOfGraph
    \/ ReturnToReduction

Spec == Init /\ [][Next]_vars

(***************************************************************************)
(* Kernels with reductions.  The root graph holds a register (1), a node   *)
(* to capture (2), a reduction over K (3), a node lowered after it (4), a  *)
(* get_result of the reduction (5) and the output (6).                     *)
(***************************************************************************)
\* The reduction at position 3: no, one or two carried values, the init
\* args being nodes 1 and 2 and the captured node 1 or 2.
FirstReductions ==
    {ReductionNode("K", SubSeq(<<1, 2>>, 1, c), <<v>>, b) :
       c \in 0..2, v \in 1..2, b \in {"none", "add", "nested", "pair"}}

\* A reduction agrees with its body on the number of carried values.
WellFormedReduction(r) ==
    r.carried = (CASE r.body = "none" -> 0 [] r.body = "pair" -> 2 [] OTHER -> 1)

\* The node at position 4: an operation, a second reduction over the same
\* axis or over another one, or a get_result of the first reduction.
LaterNodes ==
    {CallNode("shared_memory_barrier", 0, <<>>, 0), CallNode("register", 3, <<>>, 1),
     ReductionNode("K", <<1>>, <<1>>, "add"), ReductionNode("L", <<1>>, <<1>>, "add"),
     GetResultNode(3, 0)}

LoopKernels ==
    {<<CallNode("register", 3, <<>>, 1), captured, r, later, GetResultNode(3, i),
       OutputNode(<<5>>)>> :
       captured \in {CallNode("register", 3, <<>>, 1), CallNode("register", 3, <<>>, 2),
                     Placeholder},
       r \in {x \in FirstReductions : WellFormedReduction(x)},
       later \in LaterNodes, i \in 0..2}

LoopInit ==
    /\ trace \in LoopKernels
    /\ EmIdle
    /\ ixPc = "off" /\ ixIn = <<>> /\ ixOut = <<>>

LoopNext ==
    \/ StartPass
    \/ VisitPlaceholder
    \/ VisitRegister
    \/ VisitBinary
    \/ VisitBarrier
    \/ VisitGetResult
    \/ VisitReduction
    \/ ReturnOutput
    \/ ReturnToReduction

SpecLoop == LoopInit /\ [][LoopNext]_vars

(***************************************************************************)
(* Properties of the emission pass, checked under Spec.                    *)
(***************************************************************************)
\* The graph a node belongs to.
GraphOf(id) == IF IsRootId(id) THEN 0 ELSE id \div 10

\* The handlers this pass invoked for nodes of graph g, in order.
InvokedIn(g) == SelectSeq(invoked, LAMBDA id : GraphOf(id) = g)

\* The call nodes among the first k nodes of graph g, in stored order.
CallPositions(g, k) ==
    SelectSeq([i \in 1..k |-> i], LAMBDA i : IsCall(GraphNodes(g)[i]))

CallIds(g, k) ==
    [j \in 1..Len(CallPositions(g, k)) |-> NodeId(g, CallPositions(g, k)[j])]

HasOutput(g) == \E i \in 1..Len(GraphNodes(g)) : GraphNodes(g)[i].op = "output"

FirstOutput(g) ==
    CHOOSE i \in 1..Len(GraphNodes(g)) :
       /\ GraphNodes(g)[i].op = "output"
       /\ \A j \in 1..(i - 1) : GraphNodes(g)[j].op # "output"

\* The reductions of the root graph whose handler this pass has invoked.
EnteredLoops == {g \in 1..Len(trace) : g \in DOMAIN blocks}

\* C1: a lookup of a node that has an entry returns the entry's values and
\* asks neither the hook nor the node's handler; the hook is asked only for
\* a node without entry, and what it answered stays the node's entry, so
\* that it is asked at most once for a node, whatever runs in between.
C1_LookupIdempotent ==
    /\ \A i \in 1..Len(lookups) :
         /\ lookups[i].had =>
              (~lookups[i].hook /\ lookups[i].values = lookups[i].before)
         /\ lookups[i].hook => ~lookups[i].had
         /\ Count(invoked, lookups[i].node) <= 1
         /\ _node_values[lookups[i].node] = lookups[i].values
    /\ \A i \in 1..Len(hookCalls) :
         /\ hookCalls[i].node \in DOMAIN _node_values
         /\ _node_values[hookCalls[i].node] = <<hookCalls[i].v>>
         /\ \A j \in 1..Len(hookCalls) :
              hookCalls[j].node = hookCalls[i].node => j = i

\* A handler has looked up twice in one step a node that the hook resolved
\* in an earlier step: both lookups returned the stored value, and the hook
\* was asked once in all.
C1_Witness ==
    /\ Len(lookups) = 2 /\ Len(hookCalls) = 1
    /\ lookups[1].node = hookCalls[1].node /\ lookups[2].node = hookCalls[1].node
    /\ lookups[1].had /\ lookups[2].had
    /\ lookups[2].values = <<hookCalls[1].v>>

\* C2: during one pass the entry of a node is written at most once.
C2_WrittenAtMostOnce == \A n \in DOMAIN writes : writes[n] <= 1

\* C3: a pass starts with an empty cache, and a lookup never returns a
\* value that an earlier pass bound.
C3_CacheScopedToPass ==
    /\ (pc = "running" /\ frames = <<[g |-> 0, pos |-> 1]>>) => DOMAIN _node_values = {}
    /\ \A i \in 1..Len(lookups) :
         \A k \in 1..Len(lookups[i].values) : lookups[i].values[k].pass = pass

\* C4: the handlers invoked for the nodes of a graph are those of its call
\* nodes in stored order, each once and none skipped; and in every block
\* the instructions of an earlier node of a graph come before those of a
\* later node of that graph.
C4_HandlerOrder ==
    /\ pc = "running" =>
         InvokedIn(0) = CallIds(0, frames[1].pos - 1)
                          \o (IF Len(frames) = 2 THEN <<frames[1].pos>> ELSE <<>>)
    /\ \A g \in {0} \cup EnteredLoops :
         IsPrefix(InvokedIn(g), CallIds(g, Len(GraphNodes(g))))
    /\ \A b \in DOMAIN blocks :
         \A i \in 1..Len(blocks[b]), j \in 1..Len(blocks[b]) :
            /\ (i < j /\ GraphOf(blocks[b][i].node) = GraphOf(blocks[b][j].node))
                 => blocks[b][i].node <= blocks[b][j].node
            /\ blocks[b][i].node # 0 => Count(invoked, blocks[b][i].node) = 1

\* The third node's handler has appended its instruction after those of the
\* first and the second node.
C4_Witness ==
    /\ pc = "done" /\ invoked = <<1, 2, 3>>
    /\ Len(blocks[0]) = 9
    /\ blocks[0][7].node = 1 /\ blocks[0][8].node = 2 /\ blocks[0][9].node = 3

\* C5: _emit_graph stops at the first output node: it returns that node's
\* operands and has invoked the handlers of exactly the call nodes stored
\* before it; without output node it has invoked the handler of every call
\* node and returns no operands.
C5_StopsAtOutput ==
    /\ pc = "done" =>
         IF HasOutput(0)
         THEN /\ ret = [none |-> FALSE, args |-> trace[FirstOutput(0)].args]
              /\ InvokedIn(0) = CallIds(0, FirstOutput(0) - 1)
         ELSE /\ ret = NoRet
              /\ InvokedIn(0) = CallIds(0, Len(trace))
    /\ \A g \in EnteredLoops :
         g \in DOMAIN writes => InvokedIn(g) = CallIds(g, FirstOutput(g) - 1)

\* The pass is done at an output node stored second, after which a call
\* node is stored whose handler was not invoked.
C5_Witness ==
    /\ pc = "done" /\ trace[2].op = "output" /\ IsCall(trace[1]) /\ IsCall(trace[3])
    /\ trace[3].tkw_op_name \in OP_HANDLERS
    /\ invoked = <<1>> /\ ret = [none |-> FALSE, args |-> <<1>>]

AtUnregistered ==
    AtNode /\ IsCall(CurNode) /\ CurNode.tkw_op_name \notin OP_HANDLERS

\* C6: the step that visits a call node whose tag has no handler fails the
\* pass with the unhandled-operation error, invokes no handler and leaves
\* the cache and the induction-variable table as they were; and a failed
\* pass invokes no further handler.
C6_UnhandledOperation ==
    [][/\ AtUnregistered =>
            /\ pc' = "failed" /\ error' = "UnhandledOperation"
            /\ failedAt' = CurId
            /\ UNCHANGED <<_node_values, induction_vars, invoked>>
       /\ (pc = "failed" /\ pass' = pass) => UNCHANGED invoked]_vars

\* The pass has failed at an unregistered operation stored third, after the
\* handlers of the two nodes before it had bound their values.
C6_Witness ==
    /\ pc = "failed" /\ error = "UnhandledOperation" /\ failedAt = 3
    /\ invoked = <<1, 2>> /\ DOMAIN _node_values = {1, 2}

\* C7 as the specification states it: when a handler has raised, the entry
\* block holds no instruction that a handler appended.
C7_NothingCommitted ==
    pc = "failed" => \A i \in 1..Len(blocks[0]) : blocks[0][i].node = 0

\* C7, amended: the step on which a handler raises ends the pass; it takes
\* nothing out of the entry block, in which the instructions appended
\* before the failure stay, and after it nothing is appended to any block.
C7_PartialOutputStays ==
    [][/\ (pc = "running" /\ pc' = "failed") =>
            /\ error' # "none" /\ frames' = <<>>
            /\ IsPrefix(blocks[0], blocks'[0])
       /\ (pc = "failed" /\ pass' = pass) => UNCHANGED <<blocks, pc>>]_vars

\* The handler of the second node has raised; the instruction that the
\* handler of the first node appended is in the entry block.
C7_Witness ==
    /\ pc = "failed" /\ error = "MalformedArguments" /\ failedAt = 2
    /\ Len(blocks[0]) = 7 /\ blocks[0][7] = [op |-> "arith.constant", node |-> 1]

(***************************************************************************)
(* Properties of the index compiler, checked under SpecIdx.                *)
(***************************************************************************)
IdxDone(kind) == ixPc = "done" /\ ixIn.kind = kind

\* The lanes of the concrete operand of the combinator scenario.
XLanes == SampleV("index", ixIn.xn, ixIn.x, ixIn.cst).val

IsRat(r, num, den) ==
    r.err = "none" /\ r.e.rat /\ r.e.num.val = num /\ r.e.den.val = den

\* C8: gen_sympy_index lowers floor(a + b*(c/d)) and floor((a*d + b*c)/d) to
\* the same integer, the quotient of a*d + b*c by d as arith.divsi takes it;
\* and the combinators on deferred rationals return the exact (numerator,
\* denominator) pairs  x + p/q = (x*q + p)/q,  x*(p/q) = (x*p)/q,
\* p/q + r/s = (p*s + r*q)/(q*s),  (p/q)*(r/s) = (p*r)/(q*s), whichever
\* operand comes first.
C8_RationalAlgebra ==
    /\ IdxDone("floor") =>
         /\ ixOut.e1.ok /\ ixOut.e2.ok
         /\ ixOut.e1.res.n = 0 /\ ixOut.e2.res.n = 0
         /\ ixOut.e1.res.val = ixOut.e2.res.val
         /\ ixOut.e1.res.val
              = <<TruncDiv(ixIn.a * ixIn.d + ixIn.b * ixIn.c, ixIn.d)>>
    /\ IdxDone("combine") =>
         /\ IsRat(ixOut.add_cr,
                  [i \in 1..Len(XLanes) |-> XLanes[i] * ixIn.q + ixIn.p], <<ixIn.q>>)
         /\ IsRat(ixOut.add_rc,
                  [i \in 1..Len(XLanes) |-> XLanes[i] * ixIn.q + ixIn.p], <<ixIn.q>>)
         /\ IsRat(ixOut.mul_cr,
                  [i \in 1..Len(XLanes) |-> XLanes[i] * ixIn.p], <<ixIn.q>>)
         /\ IsRat(ixOut.mul_rc,
                  [i \in 1..Len(XLanes) |-> XLanes[i] * ixIn.p], <<ixIn.q>>)
         /\ IsRat(ixOut.add_rr, <<ixIn.p * ixIn.s + ixIn.r * ixIn.q>>,
                  <<ixIn.q * ixIn.s>>)
         /\ IsRat(ixOut.add_rr2, <<ixIn.p * ixIn.s + ixIn.r * ixIn.q>>,
                  <<ixIn.q * ixIn.s>>)
         /\ IsRat(ixOut.mul_rr, <<ixIn.p * ixIn.r>>, <<ixIn.q * ixIn.s>>)
         /\ IsRat(ixOut.mul_rr2, <<ixIn.p * ixIn.r>>, <<ixIn.q * ixIn.s>>)

\* floor(1 + 1*(1/2)) has been lowered with 1/2 kept as a deferred rational
\* (the numerator 1*2 + 1 formed by one multiplication and one addition,
\* divided once), result 1.
C8_Witness ==
    /\ IdxDone("floor")
    /\ ixIn.a = 1 /\ ixIn.b = 1 /\ ixIn.c = 1 /\ ixIn.d = 2
    /\ ixOut.e1.res.val = <<1>>
    /\ ixOut.e1.instrs = <<"arith.constant", "arith.constant", "arith.muli",
                           "arith.addi", "arith.divsi">>

\* C9: the mask of a read or write whose last dimension is bounded by B,
\* with start offset s and k elements per thread, is a vector of exactly k
\* booleans and lane i (0 <= i < k) is true iff s + i < B; s = B gives all
\* lanes false and s = 0, B = k all lanes true.
C9_MaskLanes ==
    IdxDone("mask") =>
      /\ ~ixOut.none /\ ixOut.err = "none"
      /\ TypeOf(ixOut.mask) = [n |-> ixIn.k, elem |-> "i1"]
      /\ Len(ixOut.mask.val) = ixIn.k
      /\ \A i \in 0..(ixIn.k - 1) :
           (ixOut.mask.val[i + 1] = 1)
             <=> (StartValue(ixIn.skind, ixIn.s0) + i < ixIn.B)
      /\ StartValue(ixIn.skind, ixIn.s0) = ixIn.B
           => \A i \in 1..ixIn.k : ixOut.mask.val[i] = 0
      /\ (StartValue(ixIn.skind, ixIn.s0) = 0 /\ ixIn.B = ixIn.k)
           => \A i \in 1..ixIn.k : ixOut.mask.val[i] = 1

\* A mask of three lanes has been built for s = 1 and B = 3 held in a
\* runtime symbol: lanes 0 and 1 are true and lane 2 is false.
C9_Witness ==
    /\ IdxDone("mask")
    /\ ixIn.k = 3 /\ ixIn.B = 3 /\ ixIn.skind = "sym" /\ ixIn.s0 = 1
    /\ ixOut.mask.val = <<1, 1, 0>>

\* C10: _broadcast returns operands of one type unchanged and emits nothing;
\* it replicates a scalar to the width N of the vector it is combined with,
\* in either operand position, and the combinator's result has width N; two
\* vectors of differing widths raise the broadcast-mismatch error.
C10_BroadcastRule ==
    IdxDone("broadcast") =>
      /\ TypeOf(ixIn.a) = TypeOf(ixIn.b) =>
           /\ ixOut.bc = [a |-> ixIn.a, b |-> ixIn.b, instrs |-> <<>>, err |-> "none"]
           /\ ixOut.op.err = "none" /\ ixOut.op.v.n = ixIn.a.n
      /\ (ixIn.a.n >= 1 /\ ixIn.b.n = 0) =>
           /\ ixOut.bc.err = "none" /\ ixOut.bc.a = ixIn.a
           /\ ixOut.bc.b.n = ixIn.a.n
           /\ ixOut.bc.b.val = [i \in 1..ixIn.a.n |-> ixIn.b.val[1]]
           /\ ixOut.op.err = "none" /\ ixOut.op.v.n = ixIn.a.n
      /\ (ixIn.a.n = 0 /\ ixIn.b.n >= 1) =>
           /\ ixOut.bc.err = "none" /\ ixOut.bc.b = ixIn.b
           /\ ixOut.bc.a.n = ixIn.b.n
           /\ ixOut.bc.a.val = [i \in 1..ixIn.b.n |-> ixIn.a.val[1]]
           /\ ixOut.op.err = "none" /\ ixOut.op.v.n = ixIn.b.n
      /\ (ixIn.a.n >= 1 /\ ixIn.b.n >= 1 /\ ixIn.a.n # ixIn.b.n) =>
           /\ ixOut.bc.err = "BroadcastMismatch"
           /\ ixOut.op.err = "BroadcastMismatch"

\* A scalar left operand has been replicated to the width of a two-lane
\* vector right operand.
C10_Witness ==
    /\ IdxDone("broadcast")
    /\ ixIn.a.n = 0 /\ ixIn.b.n = 2 /\ ixIn.a.elem = "index"
    /\ ixOut.bc.a.n = 2 /\ ixOut.bc.instrs = <<"vector.splat">>
    /\ ixOut.op.v.val = <<ixIn.a.val[1] + ixIn.b.val[1], ixIn.a.val[1] + ixIn.b.val[2]>>

\* C20: on a deferred rational p/q, _floor emits exactly one arith.divsi of
\* p by q, whose result is the quotient truncated toward zero, and _ceiling
\* exactly one arith.ceildivsi, whose result is the least integer not below
\* p/q; on a concrete value both return the value itself and emit nothing.
C20_FloorCeiling ==
    IdxDone("round") =>
      /\ ixOut.floor_r.err = "none" /\ ~ixOut.floor_r.e.rat
      /\ ixOut.floor_r.instrs = <<"arith.divsi">>
      /\ LET r == ixOut.floor_r.e.v.val[1]
         IN /\ Abs(r) * Abs(ixIn.q) <= Abs(ixIn.p)
            /\ Abs(ixIn.p) < (Abs(r) + 1) * Abs(ixIn.q)
            /\ r # 0 => Sign(r) = Sign(ixIn.p) * Sign(ixIn.q)
      /\ ixOut.ceil_r.err = "none" /\ ~ixOut.ceil_r.e.rat
      /\ ixOut.ceil_r.instrs = <<"arith.ceildivsi">>
      /\ LET c == ixOut.ceil_r.e.v.val[1]
         IN IF ixIn.q > 0
            THEN c * ixIn.q >= ixIn.p /\ (c - 1) * ixIn.q < ixIn.p
            ELSE c * ixIn.q <= ixIn.p /\ (c - 1) * ixIn.q > ixIn.p
      /\ ixOut.floor_c
           = [e |-> Conc(SampleV("index", ixIn.xn, ixIn.p, ixIn.cst)),
              instrs |-> <<>>, err |-> "none"]
      /\ ixOut.ceil_c = ixOut.floor_c

\* _floor and _ceiling have run on -1/2: the floor is 0 (truncated toward
\* zero, not -1) and the ceiling is 0.
C20_Witness ==
    /\ IdxDone("round")
    /\ ixIn.p = -1 /\ ixIn.q = 2
    /\ ixOut.floor_r.e.v.val = <<0>> /\ ixOut.ceil_r.e.v.val = <<0>>
    /\ ixOut.floor_c.instrs = <<>>

\* The value the two-operand term k denotes on concrete operands l and r.
C18_Expected(k, l, r) ==
    CASE k = "Mod" -> ScalarV("index", l - r * TruncDiv(l, r), FALSE)
      [] k = "StrictLessThan" -> ScalarV("i1", IF l < r THEN 1 ELSE 0, FALSE)
      [] k = "And" -> ScalarV("i1", IF l % 2 = 1 /\ r % 2 = 1 THEN 1 ELSE 0, FALSE)

\* C18: a Mod, StrictLessThan or And term one of whose operands is a
\* deferred rational fails with the rational-not-supported error and emits
\* no instruction for the term; with both operands concrete it emits one
\* remsi, cmpi slt or andi that combines the left operand with the right
\* operand in that order and pushes the result in place of the two operands.
C18_BinaryTerms ==
    IdxDone("binary") =>
      IF ixIn.lrat \/ ixIn.rrat
      THEN ixOut.err = "RationalNotSupported" /\ ixOut.instrs = <<>>
      ELSE /\ ixOut.err = "none"
           /\ ixOut.instrs
                = <<CASE ixIn.k = "Mod" -> "arith.remsi"
                      [] ixIn.k = "StrictLessThan" -> "arith.cmpi_slt"
                      [] ixIn.k = "And" -> "arith.andi">>
           /\ Len(ixOut.stack) = ixIn.below + 1
           /\ ixOut.stack[Len(ixOut.stack)]
                = Conc(C18_Expected(ixIn.k, ixIn.l, ixIn.r))

\* A comparison of the concrete operands 1 (left) and 2 (right) has answered
\* true, which the reverse order would not.
C18_WitnessOrder ==
    /\ IdxDone("binary")
    /\ ixIn.k = "StrictLessThan" /\ ~ixIn.lrat /\ ~ixIn.rrat
    /\ ixIn.l = 1 /\ ixIn.r = 2
    /\ ixOut.stack[Len(ixOut.stack)].v.val = <<1>>

\* A Mod term whose right operand is a deferred rational has been rejected.
C18_Witness ==
    /\ IdxDone("binary")
    /\ ixIn.k = "Mod" /\ ~ixIn.lrat /\ ixIn.rrat
    /\ ixOut.err = "RationalNotSupported"

\* C17: gen_sympy_index returns a value iff the traversal leaves exactly
\* one concrete entry on the stack and raises the malformed-expression error
\* otherwise; x + 1/2 outside floor and ceiling is rejected; and for a
\* well-formed expression (a sum, a product or a conjunction of n operands,
\* a floor of a rational sum, a remainder) every operator consumes all its
\* operands, so that one entry remains and a value is returned.
C17_SingleEntry ==
    IdxDone("stack") =>
      /\ ixOut.out.ok
           <=> /\ ixOut.st.err = "none" /\ Len(ixOut.st.stack) = 1
               /\ ~ixOut.st.stack[1].rat
      /\ (~ixOut.out.ok /\ ixOut.st.err = "none")
           => ixOut.out.err = "MalformedExpression"
      /\ ixIn.shape \in {"halfsum", "rational"}
           => ixOut.out.err = "MalformedExpression"
      /\ ixIn.shape \in {"sum", "prod", "conj", "floorhalf", "mod"}
           => ixOut.out.ok /\ Len(ixOut.st.stack) = 1

\* The same with the conjunctions limited to two operands.
C17_SingleEntryBinaryAnd ==
    (IdxDone("stack") /\ ~(ixIn.shape = "conj" /\ ixIn.n > 2)) => C17_SingleEntry

\* x + 1/2 has been rejected: the one entry left is a deferred rational.
C17_Witness ==
    /\ IdxDone("stack") /\ ixIn.shape = "halfsum"
    /\ Len(ixOut.st.stack) = 1 /\ ixOut.st.stack[1].rat
    /\ ixOut.out.err = "MalformedExpression"

\* A conjunction of three bound checks has left two entries on the stack.
C17_WitnessAnd ==
    /\ IdxDone("stack") /\ ixIn.shape = "conj" /\ ixIn.n = 3
    /\ Len(ixOut.st.stack) = 2 /\ ~ixOut.out.ok

\* C15: a reduction with static trip count n >= 0 and c carried values is
\* lowered to exactly one scf.for from 0 to n with step 1, whose c iter args
\* are initialised with the initial values in order and whose body yields
\* exactly c values; the loop's results are the body applied n times to the
\* initial values (here carried value j grows by j in every iteration).
C15_CountedLoop ==
    IdxDone("reduction") =>
      /\ SelectSeq(ixOut.loop.instrs, LAMBDA op : op = "scf.for") = <<"scf.for">>
      /\ ixOut.loop.lb = 0 /\ ixOut.loop.ub = ixIn.count /\ ixOut.loop.step = 1
      /\ ixOut.loop.inits = ixIn.init
      /\ ixOut.loop.inner_iter_args = Len(ixIn.init)
      /\ ixOut.loop.results = Len(ixIn.init)
      /\ Len(SelectSeq(ixOut.loop.body, LAMBDA o : o.op = "scf.yield")) = 1
      /\ Len(ixOut.loop.body[Len(ixOut.loop.body)].operands) = Len(ixIn.init)
      /\ ixOut.final = [j \in 1..Len(ixIn.init) |-> ixIn.init[j] + ixIn.count * j]

\* The loop of a reduction with trip count 4 and one carried value
\* initialised to 0 has been built; its result is 4 additions of 1.
C15_Witness ==
    /\ IdxDone("reduction")
    /\ ixIn.count = 4 /\ ixIn.init = <<0>>
    /\ ixOut.loop.ub = 4 /\ ixOut.final = <<4>>

\* The instructions between the extraction of the element and its
\* re-broadcast.
C16_Middle == SubSeq(ixOut.instrs, 4, Len(ixOut.instrs) - 1)

\* C16: handle_shuffle binds a result iff offset and width are compile-time
\* integers and the source is a vector of exactly one element of a float
\* type of at most 32 bits; otherwise it raises and the node stays unbound.
\* The value bound has the source's vector type; an element narrower than
\* 32 bits is extended before the xor shuffle and truncated after it, a
\* 32-bit element is neither extended nor truncated.
C16_ShuffleBinds ==
    IdxDone("shuffle") =>
      /\ ixOut.bound
           <=> /\ ixIn.offset.int /\ ixIn.width.int
               /\ ixIn.src.vector
               /\ \A d \in 1..Len(ixIn.src.shape) : ixIn.src.shape[d] = 1
               /\ ixIn.src.elem \in {"f8", "f16", "bf16", "f32"}
      /\ ~ixOut.bound <=> ixOut.err # "none"
      /\ ixOut.bound =>
           /\ ixOut.type = ixIn.src
           /\ ixOut.instrs[3] = "vector.extract"
           /\ ixOut.instrs[Len(ixOut.instrs)] = "vector.broadcast"
           /\ C16_Middle
                = IF ixIn.src.elem = "f32" THEN <<"gpu.shuffle xor">>
                  ELSE <<"arith.extf", "gpu.shuffle xor", "arith.truncf">>

\* A vector<1xf16> has been shuffled with constant offset 16 and width 32:
\* extended, shuffled, truncated, and bound with the source's type.
C16_Witness ==
    /\ IdxDone("shuffle")
    /\ ixIn.src = [vector |-> TRUE, shape |-> <<1>>, elem |-> "f16"]
    /\ ixIn.offset = [int |-> TRUE, v |-> 16]
    /\ ixOut.bound /\ C16_Middle = <<"arith.extf", "gpu.shuffle xor", "arith.truncf">>

\* The mapping of the access scenario, and the shape on its register side
\* that the handler compares with the mapping's (the memory's for a read).
AccessMapping == MappingOf(ixIn.mapping)

\* C11: a read or write whose mapping is an identity mapping over shapes
\* that match the node's memory shape (and, for a write, the register's
\* shape) emits what it emits without mapping: the same instructions, the
\* same choice between plain and masked access, the same start indices, the
\* same mask, and no gather or scatter.
C11_IdentityElided ==
    (/\ IdxDone("access") /\ ~AccessMapping.none /\ is_identity(AccessMapping)
     /\ SideShape(AccessMapping.inputs)
          = (IF ixIn.is_read THEN ixIn.memory_shape ELSE <<"M", "N">>)
     /\ SideShape(AccessMapping.outputs)
          = (IF ixIn.is_read THEN SideShape(AccessMapping.inputs)
             ELSE ixIn.memory_shape))
      => /\ ixOut.out = ixOut.ref
         /\ ixOut.out.err = "none"
         /\ Len(ixOut.out.ops) = 1
         /\ ixOut.out.ops[1].op
              \in {"vector.load", "vector.maskedload", "vector.store",
                   "vector.maskedstore"}
         /\ \A i \in 1..Len(ixOut.out.instrs) :
              ixOut.out.instrs[i] \notin {"vector.gather", "vector.scatter"}

\* A bounded read of three elements per thread from global memory with the
\* identity mapping keyed (M, N) has emitted one masked load, as without
\* mapping.
C11_Witness ==
    /\ IdxDone("access") /\ ixIn.is_read /\ ixIn.mapping = "id"
    /\ ixIn.memory_shape = <<"M", "N">> /\ ixIn.k = 3 /\ ixIn.bounded /\ ~ixIn.shared
    /\ ixOut.out.ops[1].op = "vector.maskedload"
    /\ ixOut.out = ixOut.ref

\* The memory's strides, the coordinate the mapping gives the memory's d-th
\* dimension for lane i (the element (m0, c + n0 + i) of the iteration
\* space, iterator 1 standing for the row and iterator 2 for the column),
\* and the linear address of that coordinate.
AccessStride(d) ==
    IF d = 2 THEN 1 ELSE IF ixIn.memory_shape[2] = "M" THEN MaxBound ELSE MaxBound + 1

AccessCoord(side, d, i) ==
    IF (CHOOSE e \in {side[j] : j \in 1..Len(side)} : e.dim = ixIn.memory_shape[d]).it = 1
    THEN ixIn.m0 ELSE ixIn.c + ixIn.n0 + i

AccessAddress(side, i) ==
    AccessCoord(side, 1, i) * AccessStride(1) + AccessCoord(side, 2, i) * AccessStride(2)

\* The linear address the start indices of a gather or scatter denote.
AccessBase(op) == op.start_indices[1].val[1] * AccessStride(1) + op.start_indices[2].val[1]

\* A write of the access scenario that takes the non-identity branch and
\* passes its checks: the input side is the identity over the register's
\* shape.
ScatteredWrite ==
    /\ IdxDone("access") /\ ~ixIn.is_read /\ ~AccessMapping.none
    /\ ~_is_identity_mapping(AccessMapping, <<"M", "N">>, ixIn.memory_shape)
    /\ SideIsIdentity(AccessMapping.inputs)
    /\ SideShape(AccessMapping.inputs) = <<"M", "N">>

\* C13: a write with a non-identity mapping (identity on the register side)
\* of k > 1 elements never emits a plain store; it emits one scatter whose
\* offset vector has exactly k lanes, and the reference start indices plus
\* offset lane i are the linear address (sum of coordinate times stride) of
\* the coordinate the mapping assigns to lane i; the coordinate swap writes
\* element (m, n) to (n, m).
C13_ScatterAddresses ==
    (ScatteredWrite /\ ixIn.k > 1) =>
      /\ ixOut.out.err = "none"
      /\ \A j \in 1..Len(ixOut.out.instrs) : ixOut.out.instrs[j] # "vector.store"
      /\ Len(ixOut.out.ops) = 1 /\ ixOut.out.ops[1].op = "vector.scatter"
      /\ ixOut.out.ops[1].offsets_vec.n = ixIn.k
      /\ Len(ixOut.out.ops[1].offsets_vec.val) = ixIn.k
      /\ \A i \in 0..(ixIn.k - 1) :
           AccessBase(ixOut.out.ops[1]) + ixOut.out.ops[1].offsets_vec.val[i + 1]
             = AccessAddress(AccessMapping.outputs, i)

\* The same of the offsets as gen_sympy_index returns them, before line 664.
C13_LoweredOffsets ==
    (ScatteredWrite /\ ixIn.k > 1) =>
      /\ ixOut.out.err = "none"
      /\ \A j \in 1..Len(ixOut.out.instrs) : ixOut.out.instrs[j] # "vector.store"
      /\ Len(ixOut.out.ops) = 1 /\ ixOut.out.ops[1].op = "vector.scatter"
      /\ ixOut.out.ops[1].lowered.n = ixIn.k
      /\ \A i \in 0..(ixIn.k - 1) :
           AccessBase(ixOut.out.ops[1]) + ixOut.out.ops[1].lowered.val[i + 1]
             = AccessAddress(AccessMapping.outputs, i)

\* A register of shape (M, N) has been written with two elements per
\* thread into a memory of shape (N, M) through the mapping {M: i, N: j}:
\* one scatter, whose lowered offsets are (n + lane) * |M| + m.
C13_Witness ==
    /\ ScatteredWrite /\ ixIn.k = 2 /\ ixIn.mapping = "id"
    /\ ixIn.memory_shape = <<"N", "M">>
    /\ ixIn.m0 = 1 /\ ixIn.n0 = 1 /\ ixIn.c = 0
    /\ ixOut.out.ops[1].op = "vector.scatter"
    /\ ixOut.out.ops[1].lowered.val = <<MaxBound + 1, 2 * MaxBound + 1>>

\* A read of the access scenario that takes the non-identity branch and
\* passes its check: the output side is the identity.
GatheredRead ==
    /\ IdxDone("access") /\ ixIn.is_read /\ ~AccessMapping.none
    /\ ~_is_identity_mapping(AccessMapping, ixIn.memory_shape, <<>>)
    /\ SideIsIdentity(AccessMapping.outputs)

\* C14: a read with a non-identity mapping of k elements per thread gathers,
\* for lane i, the source element at the physical coordinate obtained by
\* substituting (start of the last dimension + i) into the mapping's
\* iterator expressions, linearised with the source's strides, the lanes in
\* lane order.
C14_GatherAddresses ==
    GatheredRead =>
      /\ ixOut.out.err = "none"
      /\ Len(ixOut.out.ops) = ixIn.k
      /\ \A i \in 0..(ixIn.k - 1) :
           /\ ixOut.out.ops[i + 1].op = "vector.gather"
           /\ Len(ixOut.out.ops[i + 1].offsets_vec.val) = 1
           /\ AccessBase(ixOut.out.ops[i + 1]) + ixOut.out.ops[i + 1].offsets_vec.val[1]
                = AccessAddress(AccessMapping.inputs, i)

\* The same of the offsets as gen_sympy_index returns them, before line 664.
C14_LoweredOffsets ==
    GatheredRead =>
      /\ ixOut.out.err = "none"
      /\ Len(ixOut.out.ops) = ixIn.k
      /\ \A i \in 0..(ixIn.k - 1) :
           /\ ixOut.out.ops[i + 1].op = "vector.gather"
           /\ ixOut.out.ops[i + 1].lowered.val
                = <<AccessAddress(AccessMapping.inputs, i) - AccessBase(ixOut.out.ops[i + 1])>>

\* Three elements per thread have been read from a memory of shape (M, N)
\* through a mapping that swaps the iterators on the input side: three
\* gathers, each handed the result of a splat of a one-lane vector.
C14_Witness ==
    /\ GatheredRead /\ ixIn.k = 3 /\ ixIn.mapping = "perm_in"
    /\ ixIn.memory_shape = <<"M", "N">>
    /\ Len(ixOut.out.ops) = 3
    /\ ixOut.out.ops[3].lowered.n = 1 /\ ixOut.out.ops[3].offsets_vec.val = <<>>

\* A read or write of the access scenario that takes the non-identity
\* branch.
NonIdentityAccess ==
    /\ IdxDone("access") /\ ~AccessMapping.none
    /\ ~_is_identity_mapping(AccessMapping,
                             IF ixIn.is_read THEN ixIn.memory_shape ELSE <<"M", "N">>,
                             IF ixIn.is_read THEN <<>> ELSE ixIn.memory_shape)

\* No gather, scatter or store has been emitted.
NoAccessEmitted ==
    /\ ixOut.out.ops = <<>>
    /\ \A j \in 1..Len(ixOut.out.instrs) :
         ixOut.out.instrs[j]
           \notin {"vector.gather", "vector.scatter", "vector.store", "vector.maskedstore"}

\* C19 as stated: a non-identity mapping is accepted only when its input
\* side is the identity for a read and its output side for a write, and is
\* otherwise rejected with the unsupported-mapping error before any gather,
\* scatter or store is emitted.
C19_AsStated ==
    NonIdentityAccess =>
      IF SideIsIdentity(IF ixIn.is_read THEN AccessMapping.inputs
                        ELSE AccessMapping.outputs)
      THEN ixOut.out.err = "none"
      ELSE ixOut.out.err = "UnsupportedMapping" /\ NoAccessEmitted

\* C19, amended: a non-identity mapping is accepted only when the side on
\* the register's end of the data flow is the identity (the outputs of a
\* read, the inputs of a write, which must also be keyed by the register's
\* shape), and is otherwise rejected with the unsupported-mapping error
\* before any gather, scatter or store is emitted.
C19_RegisterSideIdentity ==
    NonIdentityAccess =>
      IF (IF ixIn.is_read THEN SideIsIdentity(AccessMapping.outputs)
          ELSE (SideIsIdentity(AccessMapping.inputs)
                  /\ SideShape(AccessMapping.inputs) = <<"M", "N">>))
      THEN ixOut.out.err = "none" /\ ixOut.out.ops # <<>>
      ELSE ixOut.out.err = "UnsupportedMapping" /\ NoAccessEmitted

\* A read whose mapping swaps the iterators on the output side has been
\* rejected after the zero constant and the two splats, before any gather.
C19_Witness ==
    /\ NonIdentityAccess /\ ixIn.is_read /\ ixIn.mapping = "perm_out"
    /\ ixOut.out.err = "UnsupportedMapping"
    /\ ixOut.out.instrs = <<"arith.constant", "vector.splat", "vector.splat">>

\* The memory instructions of the copy kernel's program, in order.
CopyAccesses ==
    SelectSeq(ixOut.program,
              LAMBDA op : op \in {"vector.load", "vector.store", "vector.maskedload",
                                  "vector.maskedstore", "vector.gather",
                                  "vector.scatter"})

\* C12: a read followed by a write of its result, with the mapping absent
\* or the identity and no bounded dimension, emits exactly one plain vector
\* load and then exactly one plain vector store: the load is there before
\* the store is emitted, and no mask, masked load, masked store, gather or
\* scatter is emitted at any point.
C12_CopyLoadThenStore ==
    (ixIn.kind = "copy" /\ ~ixIn.bounded) =>
      /\ ixPc = "read" => CopyAccesses = <<"vector.load">>
      /\ ixPc = "done" => CopyAccesses = <<"vector.load", "vector.store">>
      /\ ixPc \in {"read", "done"} =>
           \A j \in 1..Len(ixOut.program) :
             ixOut.program[j]
               \notin {"arith.cmpi_slt", "arith.andi", "vector.constant_mask"}

\* The copy with the identity mapping in global memory, no dimension being
\* bounded, is complete: the load, then the store.
C12_Witness ==
    /\ ixIn.kind = "copy" /\ ixPc = "done" /\ ~ixIn.bounded /\ ~ixIn.shared
    /\ ixIn.k = MaxLanes /\ ixIn.mapping = "id"
    /\ CopyAccesses = <<"vector.load", "vector.store">>
    /\ ixOut.program[Len(ixOut.program)] = "vector.store"

(***************************************************************************)
(* The mask over several bounded dimensions.                               *)
(***************************************************************************)
\* The start and the declared size of a dimension of the scenario.
DimStart(dim) ==
    CASE dim = "K" -> ixIn.sk [] dim = "M" -> ixIn.sm [] OTHER -> ixIn.s0

DimSize(dim) == DimsIdxc[dim].v

\* Lane i is within the bound of every bounded dimension.
LaneInBounds(i) ==
    \A j \in 1..Len(ixIn.dims) :
       DimStart(ixIn.dims[j]) + (IF ixIn.dims[j] = "N" THEN i ELSE 0)
         < DimSize(ixIn.dims[j])

DimsMaskIsConjunction ==
    /\ ~ixOut.none /\ ixOut.err = "none"
    /\ TypeOf(ixOut.mask) = [n |-> ixIn.k, elem |-> "i1"]
    /\ Len(ixOut.mask.val) = ixIn.k
    /\ \A i \in 0..(ixIn.k - 1) : (ixOut.mask.val[i + 1] = 1) <=> LaneInBounds(i)

\* C21: for an index with any number d >= 1 of bounded dimensions, d >= 3
\* included, _build_mask succeeds and lane i of the mask is the conjunction
\* over every bounded dimension of (the dimension's start, plus i for the
\* last dimension only) < the dimension's declared size.
C21_EveryBoundedDimension == IdxDone("maskdims") => DimsMaskIsConjunction

\* C21, as the code has it: the mask is that conjunction for one or two
\* bounded dimensions; with three, the And term of three arguments leaves
\* two entries on the stack and the lowering fails on the single-result
\* check, no mask being built.
C21_UpToTwoDimensions ==
    IdxDone("maskdims") =>
      IF Len(ixIn.dims) <= 2 THEN DimsMaskIsConjunction
      ELSE ixOut.err = "MalformedExpression"

\* Three bounded dimensions, all three starts in bounds: no mask.
C21_Witness ==
    /\ IdxDone("maskdims") /\ Len(ixIn.dims) = 3
    /\ ixIn.sk = 0 /\ ixIn.sm = 0 /\ ixIn.s0 = 0
    /\ ixOut.err = "MalformedExpression"

\* Two bounded dimensions, the outer one a scalar predicate broadcast to the
\* lanes of the last one: lanes 0 and 1 in bounds, lane 2 out.
C21_WitnessTwo ==
    /\ IdxDone("maskdims") /\ ixIn.dims = <<"M", "N">> /\ ixIn.k = MaxLanes
    /\ ixIn.sm = 0 /\ ixIn.s0 = 1
    /\ ixOut.mask.val = [i \in 1..MaxLanes |-> IF i < MaxLanes THEN 1 ELSE 0]

(***************************************************************************)
(* The masked and the plain contiguous access.                             *)
(***************************************************************************)
\* The access is unmapped or its mapping is the identity with the shapes of
\* the memory (and, for a write, of the register).
ContiguousCase ==
    /\ IdxDone("access")
    /\ \/ ixIn.mapping = "none"
       \/ /\ is_identity(AccessMapping)
          /\ SideShape(AccessMapping.inputs)
               = (IF ixIn.is_read THEN ixIn.memory_shape ELSE <<"M", "N">>)
          /\ SideShape(AccessMapping.outputs) = ixIn.memory_shape

\* The last n instructions of a program.
LastInstrs(program, n) ==
    IF Len(program) < n THEN program
    ELSE SubSeq(program, Len(program) - n + 1, Len(program))

MaskComputed(program) == \E i \in 1..Len(program) : program[i] = "arith.cmpi_slt"

\* C22: an identity-mapped or unmapped read or write emits a masked load
\* (with an all-zero passthrough: a zero constant splat to the vector type)
\* or a masked store iff a bounds mask was computed and the memory is not in
\* the shared address space; in the shared address space the plain load or
\* store is emitted even though the mask was computed.
C22_MaskedUnlessShared ==
    ContiguousCase =>
      /\ ixOut.out.err = "none" /\ Len(ixOut.out.ops) = 1
      /\ MaskComputed(ixOut.out.instrs) <=> ixIn.bounded
      /\ (ixOut.out.ops[1].op
             = (IF ixIn.is_read THEN "vector.maskedload" ELSE "vector.maskedstore"))
           <=> (ixIn.bounded /\ ~ixIn.shared)
      /\ (ixOut.out.ops[1].op = (IF ixIn.is_read THEN "vector.load" ELSE "vector.store"))
           <=> ~(ixIn.bounded /\ ~ixIn.shared)
      /\ ixOut.out.ops[1].op = "vector.maskedload"
           => LastInstrs(ixOut.out.instrs, 3)
                = <<"arith.constant", "vector.splat", "vector.maskedload">>
      /\ ixOut.out.ops[1].op \in {"vector.maskedload", "vector.maskedstore"}
           => /\ Len(ixOut.out.ops[1].mask.val) = ixIn.k
              /\ \A i \in 0..(ixIn.k - 1) :
                   (ixOut.out.ops[1].mask.val[i + 1] = 1)
                     <=> (ixIn.c + ixIn.n0 + i < AccessIdxc["N"].v)

\* A bounded read from shared memory: the mask has been computed and the
\* plain load emitted.
C22_Witness ==
    /\ ContiguousCase /\ ixIn.is_read /\ ixIn.bounded /\ ixIn.shared
    /\ MaskComputed(ixOut.out.instrs)
    /\ ixOut.out.ops[1].op = "vector.load"

\* A bounded write to global memory: the masked store.
C22_WitnessMasked ==
    /\ ContiguousCase /\ ~ixIn.is_read /\ ixIn.bounded /\ ~ixIn.shared
    /\ ixIn.mapping = "id" /\ ixOut.out.ops[1].op = "vector.maskedstore"

(***************************************************************************)
(* The write of a single element through a non-identity mapping.           *)
(***************************************************************************)
\* C23: a write with a non-identity mapping of exactly one element per
\* thread emits a masked store instead of a scatter, and the address the
\* masked store writes (its start indices linearised with the destination's
\* strides) is the address the mapping assigns to the thread's element.
C23_SingleElementAddress ==
    (ScatteredWrite /\ ixIn.k = 1) =>
      /\ ixOut.out.err = "none"
      /\ Len(ixOut.out.ops) = 1 /\ ixOut.out.ops[1].op = "vector.maskedstore"
      /\ \A j \in 1..Len(ixOut.out.instrs) : ixOut.out.instrs[j] # "vector.scatter"
      /\ AccessBase(ixOut.out.ops[1]) = AccessAddress(AccessMapping.outputs, 0)

\* C23, as the code has it: the masked store is emitted instead of the
\* scatter, at the all-zero start indices of the general path, the offset
\* the mapping assigns to the element being computed and not used.
C23_StoreAtZero ==
    (ScatteredWrite /\ ixIn.k = 1) =>
      /\ ixOut.out.err = "none"
      /\ Len(ixOut.out.ops) = 1 /\ ixOut.out.ops[1].op = "vector.maskedstore"
      /\ \A j \in 1..Len(ixOut.out.instrs) : ixOut.out.instrs[j] # "vector.scatter"
      /\ AccessBase(ixOut.out.ops[1]) = 0

\* The element (1, 1) of a register of shape (M, N) written into a memory of
\* shape (N, M) through {M: i, N: j}: the masked store is at address 0 and
\* the element belongs at address 1 * |M| + 1.
C23_Witness ==
    /\ ScatteredWrite /\ ixIn.k = 1 /\ ixIn.mapping = "id"
    /\ ixIn.memory_shape = <<"N", "M">>
    /\ ixIn.m0 = 1 /\ ixIn.n0 = 1 /\ ixIn.c = 0
    /\ ixOut.out.ops[1].op = "vector.maskedstore"
    /\ AccessBase(ixOut.out.ops[1]) = 0
    /\ AccessAddress(AccessMapping.outputs, 0) = MaxBound + 1

(***************************************************************************)
(* The two paths of _construct_gather_scatter_indices.                     *)
(***************************************************************************)
\* The linear address the start indices of a path denote.
PathBase(r) == r.start_indices[1].val[1] * AccessStride(1) + r.start_indices[2].val[1]

\* Both paths of the scenario have run on an accepted mapping and every
\* lane's relative offset is a compile-time integer.
PathsComputed ==
    /\ IdxDone("paths") /\ ixOut.general.err = "none" /\ ixOut.constant.err = "none"
    /\ ~ixOut.need_dynamic_offsets

\* C24: the constant-offset path (mapped start indices plus per-lane
\* constant offsets) and the general path (all-zero start indices plus
\* per-lane absolute offsets) address the same element for every lane,
\* linearised start indices + offset[i] being equal in both, whenever every
\* lane's relative offset is a compile-time integer; and the general path is
\* the one taken on every call.
C24_PathsAgree ==
    PathsComputed =>
      /\ ixOut.returned = ixOut.general
      /\ Len(ixOut.constant.offsets_vec.val) = ixIn.k
      /\ Len(ixOut.general.offsets_vec.val) = ixIn.k
      /\ \A i \in 1..ixIn.k :
           PathBase(ixOut.constant) + ixOut.constant.offsets_vec.val[i]
             = PathBase(ixOut.general) + ixOut.general.offsets_vec.val[i]

\* C24 of the general path's offsets as gen_sympy_index returns them, before
\* line 664: both paths then give every lane the address the mapping
\* assigns to it, and the general path is the one returned.
C24_PathsAgreeBeforeSplat ==
    PathsComputed =>
      /\ ixOut.returned = ixOut.general
      /\ PathBase(ixOut.general) = 0
      /\ Len(ixOut.constant.offsets_vec.val) = ixIn.k
      /\ Len(ixOut.general.lowered.val) = ixIn.k
      /\ \A i \in 1..ixIn.k :
           /\ PathBase(ixOut.constant) + ixOut.constant.offsets_vec.val[i]
                = PathBase(ixOut.general) + ixOut.general.lowered.val[i]
           /\ PathBase(ixOut.general) + ixOut.general.lowered.val[i]
                = AccessAddress(MappedSide(AccessMapping, ixIn.is_read),
                                i - 1 + ixIn.thread_offset)

\* A write of two elements through the coordinate swap, from (1, 1) on: the
\* constant path starts at 1 * |M| + 1 with the offsets (0, |M|), the
\* general path at 0 with the lowered offsets (|M| + 1, 2 * |M| + 1), and
\* the offsets it returns have no lane.
C24_Witness ==
    /\ PathsComputed /\ ~ixIn.is_read /\ ixIn.mapping = "id"
    /\ ixIn.memory_shape = <<"N", "M">> /\ ixIn.k = 2 /\ ixIn.thread_offset = 0
    /\ ixIn.m0 = 1 /\ ixIn.n0 = 1 /\ ixIn.c = 0
    /\ PathBase(ixOut.constant) = MaxBound + 1
    /\ ixOut.constant.offsets_vec.val = <<0, MaxBound>>
    /\ ixOut.general.lowered.val = <<MaxBound + 1, 2 * MaxBound + 1>>
    /\ ixOut.general.offsets_vec.val = <<>>

(***************************************************************************)
(* The masks of the gathers of a read.                                     *)
(***************************************************************************)
\* Lane i of the read is within the bound of the last dimension.
ReadLaneInBounds(i) == ixIn.c + ixIn.n0 + i < AccessIdxc["N"].v

\* C25: for a read with a non-identity mapping, k elements per thread and a
\* bounded dimension, the mask of the gather of lane i is true iff lane i's
\* own index (start of the last dimension + i) is within the bound; a lane
\* out of bounds is masked off (and receives the zero passthrough) even when
\* lane 0 of the same thread is in bounds.
C25_LaneOwnMask ==
    (GatheredRead /\ ixIn.bounded) =>
      /\ ixOut.out.err = "none" /\ Len(ixOut.out.ops) = ixIn.k
      /\ \A i \in 0..(ixIn.k - 1) :
           /\ ixOut.out.ops[i + 1].op = "vector.gather"
           /\ ixOut.out.ops[i + 1].mask.val = <<IF ReadLaneInBounds(i) THEN 1 ELSE 0>>

\* C25, as the code has it: the mask of every lane's gather is the test of
\* lane 0, _build_mask being called with one element per thread and without
\* the lane's offset.
C25_LaneZeroMask ==
    (GatheredRead /\ ixIn.bounded) =>
      /\ ixOut.out.err = "none" /\ Len(ixOut.out.ops) = ixIn.k
      /\ \A i \in 0..(ixIn.k - 1) :
           /\ ixOut.out.ops[i + 1].op = "vector.gather"
           /\ ixOut.out.ops[i + 1].mask.val = <<IF ReadLaneInBounds(0) THEN 1 ELSE 0>>

\* Two elements read from the last in-bounds position on: lane 1 is out of
\* bounds and its gather is not masked off.
C25_Witness ==
    /\ GatheredRead /\ ixIn.bounded /\ ixIn.k = 2
    /\ ixIn.c = 0 /\ ixIn.n0 = MaxBound
    /\ ReadLaneInBounds(0) /\ ~ReadLaneInBounds(1)
    /\ ixOut.out.ops[2].mask.val = <<1>>

(***************************************************************************)
(* Properties of the reduction loops, checked under SpecLoop.              *)
(***************************************************************************)
\* The reduction nodes whose body is being emitted, outermost first.
OpenLoops == [k \in 1..(Len(frames) - 1) |-> frames[k + 1].g]

\* The init args and the captured nodes of the reduction node id, and the
\* placeholders of its subgraph that stand for them.
InitArgs(id) == SubSeq(NodeOf(id).args, 1, NodeOf(id).carried)

CapturedNodes(id) == SubSeq(NodeOf(id).args, NodeOf(id).carried + 1, Len(NodeOf(id).args))

IterArg(id, i) == 10 * id + i

CapturedVar(id, j) == 10 * id + NodeOf(id).carried + j

\* The bindings handle_reduction makes before it emits the subgraph.
BoundForBody(id) ==
    /\ NodeOf(id).axis \in DOMAIN induction_vars
    /\ induction_vars[NodeOf(id).axis] = BlockArg(id, pass, 0)
    /\ \A i \in 1..Len(InitArgs(id)) :
         /\ IterArg(id, i) \in DOMAIN _node_values
         /\ _node_values[IterArg(id, i)]
              = <<BlockArg(IterArg(id, i), pass, _node_values[InitArgs(id)[i]][1].n)>>
    /\ \A j \in 1..Len(CapturedNodes(id)) :
         /\ CapturedVar(id, j) \in DOMAIN _node_values
         /\ CapturedNodes(id)[j] \in DOMAIN _node_values
         /\ _node_values[CapturedVar(id, j)] = _node_values[CapturedNodes(id)[j]]

\* The step on which handle_reduction opens the loop of the current node.
OpensLoop ==
    /\ AtNode /\ IsCall(CurNode) /\ CurNode.tkw_op_name = "reduction"
    /\ pc' = "running"

\* The entries of the reduction's placeholders, which the step writes; the
\* only other entry it may write is the hook's answer for an init arg or a
\* captured node that had no entry.
WrittenByOpening(id) ==
    {IterArg(id, i) : i \in 1..Len(InitArgs(id))}
      \cup {CapturedVar(id, j) : j \in 1..Len(CapturedNodes(id))}

\* C26: in handle_reduction, before the handler of any node of the subgraph
\* is invoked, the axis is bound to the loop's induction variable, the
\* placeholder of carried value i to the loop's i-th per-iteration carried
\* value, and the placeholder of every captured variable to the value list
\* cached for the node it captures; and the aliasing invokes no handler,
\* emits no instruction and leaves the captured node's own entry unchanged.
C26_BoundBeforeBody ==
    /\ [](pc = "running" =>
            /\ \A k \in 1..Len(OpenLoops) :
                 NodeOf(OpenLoops[k]).axis \in DOMAIN induction_vars
            /\ (Len(frames) >= 2 /\ Top(frames).pos = 1) =>
                 /\ BoundForBody(Top(frames).g)
                 /\ InvokedIn(Top(frames).g) = <<>>
                 /\ Top(invoked) = Top(frames).g
                 /\ blocks[Top(frames).g] = <<>>)
    /\ [][OpensLoop =>
            /\ invoked' = Append(invoked, CurId)
            /\ blocks'[Top(ip)]
                 = blocks[Top(ip)]
                     \o <<[op |-> "arith.constant", node |-> CurId],
                          [op |-> "arith.constant", node |-> CurId],
                          [op |-> "arith.constant", node |-> CurId],
                          [op |-> "scf.for", node |-> CurId]>>
            /\ \A n \in DOMAIN _node_values \ WrittenByOpening(CurId) :
                 _node_values'[n] = _node_values[n]
            /\ \A n \in DOMAIN hookCalls' \ DOMAIN hookCalls :
                 /\ hookCalls'[n].node \notin DOMAIN _node_values
                 /\ \E j \in 1..Len(CurNode.args) :
                      hookCalls'[n].node = CurNode.args[j]]_vars

\* The body of a reduction with two carried values is about to be emitted:
\* both iter args and the captured variable are bound, the latter to the
\* values of the register it captures, and no handler of the body has run.
C26_Witness ==
    /\ pc = "running" /\ pass = 1 /\ frames = <<[g |-> 0, pos |-> 3], [g |-> 3, pos |-> 1]>>
    /\ trace[3].carried = 2 /\ trace[3].args = <<1, 2, 2>>
    /\ trace[2].op = "call_function"
    /\ _node_values[33] = _node_values[2]
    /\ _node_values[31] = <<BlockArg(31, 1, 1)>>
    /\ induction_vars = ("K" :> BlockArg(3, 1, 0))
    /\ invoked = <<1, 2, 3>>

(***************************************************************************)
(* The results of a reduction.                                             *)
(***************************************************************************)
\* The root graph's loop is past the node at position p in this pass.
RootPast(p) ==
    \/ pc = "done"
    \/ pc = "running" /\ frames[1].pos > p
    \/ pc = "failed" /\ failedAt > p /\ failedAt < 10

\* The i-th final result (counted from 0) of the loop of the reduction id:
\* a result of the loop, of the type of the i-th init arg.
FinalResult(id, i) ==
    [kind |-> "result", node |-> id, pass |-> pass,
     n |-> _node_values[InitArgs(id)[i + 1]][1].n, idx |-> i]

\* The get_result nodes of the root graph that select a result of the
\* reduction id.
GetResultsOf(id) ==
    {p \in 1..Len(trace) : /\ IsCall(trace[p]) /\ trace[p].tkw_op_name = "get_result"
                           /\ trace[p].args[1] = id}

\* C27: once handle_reduction has completed for a reduction with c carried
\* values, the reduction node is bound to exactly c values, slot i being the
\* loop's i-th final result; and a get_result node with the operands
\* (reduction, i), 0 <= i < c, is bound to that same i-th result, whatever
\* was lowered between the reduction and the get_result (nothing, an
\* operation, another get_result, or a whole second reduction).
C27_ResultsBySlot ==
    /\ [](RootPast(3) =>
            /\ Len(_node_values[3]) = trace[3].carried
            /\ \A i \in 0..(trace[3].carried - 1) :
                 _node_values[3][i + 1] = FinalResult(3, i)
            /\ \A p \in GetResultsOf(3) :
                 (RootPast(p) /\ trace[p].res_idx < trace[3].carried) =>
                   _node_values[p] = <<FinalResult(3, trace[p].res_idx)>>)
    /\ [][(/\ AtNode /\ Cur.g = 0 /\ Cur.pos \in GetResultsOf(3)
           /\ CurNode.res_idx < trace[3].carried)
            => (/\ pc' = "running"
                /\ _node_values'[CurId] = <<FinalResult(3, CurNode.res_idx)>>
                /\ blocks' = blocks)]_vars

\* A reduction with two carried values, a second reduction lowered after it,
\* and then the get_result of slot 1: it holds the first loop's result 1.
C27_Witness ==
    /\ pc = "done" /\ pass = 1
    /\ trace[3].carried = 2 /\ trace[4].tkw_op_name = "reduction"
    /\ trace[5].res_idx = 1
    /\ Len(_node_values[3]) = 2
    /\ _node_values[5] = <<[kind |-> "result", node |-> 3, pass |-> 1, n |-> 1, idx |-> 1]>>
    /\ _node_values[5] = <<_node_values[3][2]>>
    /\ _node_values[5] # <<_node_values[3][1]>>
    /\ 41 \in DOMAIN _node_values

(***************************************************************************)
(* The table of induction variables.                                       *)
(***************************************************************************)
\* The reductions over the axis whose handler was invoked in this pass, in
\* the order of their invocation.
ReductionsOver(axis) ==
    SelectSeq(invoked, LAMBDA id : /\ NodeOf(id).tkw_op_name = "reduction"
                                   /\ NodeOf(id).axis = axis)

\* handle_reduction is invoked for the current node.
VisitsReduction == AtNode /\ IsCall(CurNode) /\ CurNode.tkw_op_name = "reduction"

\* C28: during a pass the table of induction variables changes only by
\* handle_reduction writing axis -> induction variable of its loop, and no
\* step removes an entry: an axis stays bound to the induction variable of
\* the last reduction over it that was entered, also after that loop is
\* finished, until the end of the pass; a later reduction over an axis that
\* is already bound overwrites the binding and raises no error.
C28_NeverCleared ==
    /\ [](pc \in {"running", "done", "failed"} =>
            /\ DOMAIN induction_vars = {a \in {"K", "L"} : ReductionsOver(a) # <<>>}
            /\ \A a \in DOMAIN induction_vars :
                 induction_vars[a] = BlockArg(Top(ReductionsOver(a)), pass, 0))
    /\ [][pc = "running" =>
            /\ DOMAIN induction_vars \subseteq DOMAIN induction_vars'
            /\ induction_vars' # induction_vars =>
                 /\ VisitsReduction
                 /\ induction_vars'
                      = (CurNode.axis :> BlockArg(CurId, pass, 0)) @@ induction_vars
            /\ (VisitsReduction /\ CurNode.axis \in DOMAIN induction_vars) =>
                 /\ pc' = "running" /\ error' = "none"
                 /\ induction_vars'[CurNode.axis] = BlockArg(CurId, pass, 0)]_vars

\* After the loop of the reduction at 3 is finished, a second reduction over
\* the same axis was lowered: the axis is bound to the second loop's
\* induction variable, and still is at the end of the pass.
C28_Witness ==
    /\ pc = "done" /\ pass = 1
    /\ trace[3].axis = "K" /\ trace[4].tkw_op_name = "reduction" /\ trace[4].axis = "K"
    /\ ReductionsOver("K") = <<3, 4>>
    /\ induction_vars = ("K" :> BlockArg(4, 1, 0))

\* The loop over K is finished and a reduction over L was lowered after it:
\* K is still bound to the finished loop's induction variable.
C28_WitnessKept ==
    /\ pc = "done" /\ pass = 1
    /\ trace[4].tkw_op_name = "reduction" /\ trace[4].axis = "L"
    /\ induction_vars = ("K" :> BlockArg(3, 1, 0)) @@ ("L" :> BlockArg(4, 1, 0))

(***************************************************************************)
(* The insertion points around a reduction.                                *)
(***************************************************************************)
\* The block b holds the instruction: the entry block those of the nodes of
\* the root graph (and of the prologue, node 0), the body of the loop b
\* those of the nodes of b's subgraph and the yield of b's handler.
BelongsTo(b, instr) ==
    \/ instr.node # 0 /\ GraphOf(instr.node) = b
    \/ instr.node = 0 /\ b = 0
    \/ b # 0 /\ instr.node = b /\ instr.op = "scf.yield"

\* The position in the graph b of the node that emitted the instruction,
\* the yield counting for the output node.
EmittedAt(b, instr) ==
    IF b # 0 /\ instr.node = b THEN Len(GraphNodes(b)) ELSE instr.node % 10

\* The body of the loop b is finished.
Finished(b) == b # 0 /\ (pc = "done" \/ (pc = "running" /\ \A k \in 1..Len(ip) : ip[k] # b))

\* C29: the instructions emitted by the handlers of a reduction's subgraph
\* and the yield are appended inside the loop body, the yield being the
\* body's last instruction; once handle_reduction has returned, also for a
\* reduction nested in another one's body, the instructions of the nodes
\* that follow in the enclosing graph are appended after the loop in the
\* enclosing block, and the finished body is never changed again.
C29_InsertionPoints ==
    /\ [](pc \in {"running", "done"} =>
            /\ pc = "running" => ip = <<0>> \o OpenLoops
            /\ \A b \in DOMAIN blocks :
                 /\ \A i \in 1..Len(blocks[b]) : BelongsTo(b, blocks[b][i])
                 /\ \A i, j \in 1..Len(blocks[b]) :
                      i < j => EmittedAt(b, blocks[b][i]) <= EmittedAt(b, blocks[b][j])
                 /\ Finished(b) =>
                      /\ blocks[b] # <<>> /\ Top(blocks[b]) = [op |-> "scf.yield", node |-> b]
                      /\ \A i \in 1..(Len(blocks[b]) - 1) : blocks[b][i].op # "scf.yield"
                 /\ (b # 0 /\ ~Finished(b)) =>
                      \A i \in 1..Len(blocks[b]) : blocks[b][i].op # "scf.yield")
    /\ [][pc = "running" =>
            \A b \in DOMAIN blocks :
              /\ b \in DOMAIN blocks'
              /\ Finished(b) => blocks'[b] = blocks[b]
              /\ b # Top(ip) => blocks'[b] = blocks[b]
              /\ Len(blocks'[b]) >= Len(blocks[b])
              /\ SubSeq(blocks'[b], 1, Len(blocks[b])) = blocks[b]]_vars

\* A reduction whose body holds a nested reduction and then a barrier, with
\* a barrier after the outer loop: the inner body holds the inner
\* operation and its yield, the outer body the inner loop, the barrier and
\* the outer yield, and the entry block the outer loop and then the barrier.
C29_Witness ==
    /\ pc = "done" /\ pass = 1 /\ trace[3].body = "nested"
    /\ trace[4].tkw_op_name = "shared_memory_barrier"
    /\ SubSeq(blocks[0], Len(blocks[0]) - 1, Len(blocks[0]))
         = <<[op |-> "scf.for", node |-> 3], [op |-> "amdgpu.lds_barrier", node |-> 4]>>
    /\ blocks[3] = <<[op |-> "arith.constant", node |-> 33],
                     [op |-> "arith.constant", node |-> 33],
                     [op |-> "arith.constant", node |-> 33],
                     [op |-> "scf.for", node |-> 33],
                     [op |-> "amdgpu.lds_barrier", node |-> 34],
                     [op |-> "scf.yield", node |-> 3]>>
    /\ Len(blocks[33]) = 2 /\ blocks[33][1].node = 333
    /\ blocks[33][2] = [op |-> "scf.yield", node |-> 33]

(***************************************************************************)
(* Properties of the runtime bindings, checked under SpecIdx.              *)
(***************************************************************************)
\* The tiling constraints of the scenario's constraint list.
TilingDims ==
    {ixIn.constraints[i].dim : i \in {j \in 1..Len(ixIn.constraints) :
                                        ixIn.constraints[j].tiling}}

\* The symbol has a compile-time value or a runtime binding: a size the
\* indexing context knows, a thread or workgroup id, or the induction symbol
\* of a tiled axis whose reduction is entered.
HasValue(name) ==
    \/ name \in DOMAIN BindingsIdxc
    \/ name \in {"T0", "T1", "T2", "WG0", "WG1", "WG2"}
    \/ \E a \in TilingDims \cap ixIn.entered : name = TilingConstraint(a).induction_var

\* An expression all of whose symbols have a value was lowered inside the
\* body of the reduction over K.
LoweredInBodyOfK ==
    /\ IdxDone("bindings") /\ "K" \in ixIn.entered
    /\ \A name \in BindingsExpr(ixIn.e).syms : HasValue(name)

\* C30: inside the body of a reduction over an axis (here K), lowering an
\* index expression succeeds whenever every symbol of the expression has a
\* compile-time value or a runtime binding, even if the constraint list
\* holds tiling constraints for other axes whose reductions have not been
\* entered; resolution never fails on account of a symbol the expression
\* does not mention.
C30_SucceedsWhenSymbolsBound == LoweredInBodyOfK => ixOut.err = "none"

\* C30, as the code has it: the lowering raises AssertionError exactly when
\* some tiling constraint's axis has no induction variable yet, whatever
\* the expression mentions, and succeeds otherwise.
C30_EveryTiledAxisEntered ==
    LoweredInBodyOfK =>
      ixOut.err = (IF TilingDims \subseteq ixIn.entered THEN "none" ELSE "AssertionError")

\* A thread id lowered in the body of the reduction over K while the
\* constraints also tile L, whose reduction is not entered.
C30_Witness ==
    /\ LoweredInBodyOfK /\ ixIn.e = "thread" /\ ixIn.entered = {"K"}
    /\ ixIn.constraints = <<TilingConstraint("K"), TilingConstraint("L")>>
    /\ ixOut.err = "AssertionError"

\* The sum of the induction symbol of K and a workgroup id, both bound.
C30_WitnessLowered ==
    /\ LoweredInBodyOfK /\ ixIn.e = "sum" /\ ixIn.entered = {"K", "L"}
    /\ ixIn.constraints = <<TilingConstraint("K"), TilingConstraint("L")>>
    /\ ixIn.ik = 1 /\ ixIn.w1 = 1
    /\ ixOut.err = "none" /\ ixOut.res.val = <<2>>

====
